---- MODULE Spec2Model ----
(***************************************************************************)
(* Model of the voice-portfolio agent: the per-turn conversation router    *)
(* (PortfolioAssistant.on_user_turn_completed), the session data           *)
(* (BookingUserData), the function tools exposed to the LLM and the        *)
(* Cal.com client they delegate to.                                        *)
(*                                                                         *)
(* Python strings are TLA+ strings; the text functions (lower, strip,      *)
(* split, the `in` substring test) are computed character by character.    *)
(***************************************************************************)
EXTENDS Integers, Sequences, FiniteSets, TLC

(***************************************************************************)
(* Bounds of the model.                                                    *)
(***************************************************************************)
\* longest utterance, in words of Vocabulary
MaxWords == 3

\* most _close_after_delay tasks asleep at a time
MaxCloseTasks == 2

(***************************************************************************)
(* Python's None, for the Optional[str] fields and a missing message.      *)
(***************************************************************************)
None == "<None>"

\* Python truthiness of an Optional[str]
Truthy(s) == s # None /\ s # ""

\* Python's `a or b` on Optional[str]
Or(a, b) == IF Truthy(a) THEN a ELSE b

(***************************************************************************)
(* class ConversationState, class IntentType                               *)
(***************************************************************************)
GREETING == "GREETING"
DISCOVER_INTENT == "DISCOVER_INTENT"
VALUE_EXCHANGE == "VALUE_EXCHANGE"
OPTIONAL_DEPTH == "OPTIONAL_DEPTH"
SOFT_CTA == "SOFT_CTA"
BOOKING_COLLECT_NAME_AND_EMAIL == "BOOKING_COLLECT_NAME_AND_EMAIL"
BOOKING_TIME_RANGE == "BOOKING_TIME_RANGE"
BOOKING_PICK_SLOT == "BOOKING_PICK_SLOT"
BOOKING_CONFIRM_BOOKING == "BOOKING_CONFIRM_BOOKING"
WARM_CLOSE == "WARM_CLOSE"
RECOVERY == "RECOVERY"
END == "END"

ConversationState ==
    { GREETING, DISCOVER_INTENT, VALUE_EXCHANGE, OPTIONAL_DEPTH, SOFT_CTA,
      BOOKING_COLLECT_NAME_AND_EMAIL, BOOKING_TIME_RANGE, BOOKING_PICK_SLOT,
      BOOKING_CONFIRM_BOOKING, WARM_CLOSE, RECOVERY, END }

UNKNOWN == "UNKNOWN"
EXPLORER == "EXPLORER"
HIRING == "HIRING"
FOUNDER == "FOUNDER"

IntentType == { UNKNOWN, EXPLORER, HIRING, FOUNDER }

(***************************************************************************)
(* Text primitives.                                                        *)
(***************************************************************************)
Ch(t, i) == SubSeq(t, i, i)

\* str.__contains__: k occurs in t as a contiguous substring
Contains(t, k) ==
    \E i \in 1..(Len(t) - Len(k) + 1) : SubSeq(t, i, i + Len(k) - 1) = k

\* any(k in t for k in keys)
AnyIn(t, keys) == \E k \in keys : Contains(t, k)

UpperToLower ==
    [c \in {"A","B","C","D","E","F","G","H","I","J","K","L","M",
            "N","O","P","Q","R","S","T","U","V","W","X","Y","Z"} |->
        CASE c = "A" -> "a" [] c = "B" -> "b" [] c = "C" -> "c" [] c = "D" -> "d"
          [] c = "E" -> "e" [] c = "F" -> "f" [] c = "G" -> "g" [] c = "H" -> "h"
          [] c = "I" -> "i" [] c = "J" -> "j" [] c = "K" -> "k" [] c = "L" -> "l"
          [] c = "M" -> "m" [] c = "N" -> "n" [] c = "O" -> "o" [] c = "P" -> "p"
          [] c = "Q" -> "q" [] c = "R" -> "r" [] c = "S" -> "s" [] c = "T" -> "t"
          [] c = "U" -> "u" [] c = "V" -> "v" [] c = "W" -> "w" [] c = "X" -> "x"
          [] c = "Y" -> "y" [] c = "Z" -> "z"]

LowerCh(c) == IF c \in DOMAIN UpperToLower THEN UpperToLower[c] ELSE c

\* str.lower()
RECURSIVE Lower(_)
Lower(t) == IF t = "" THEN "" ELSE LowerCh(Ch(t, 1)) \o Lower(SubSeq(t, 2, Len(t)))

IsSpace(c) == c = " "

RECURSIVE LStrip(_)
LStrip(t) ==
    IF t # "" /\ IsSpace(Ch(t, 1)) THEN LStrip(SubSeq(t, 2, Len(t))) ELSE t

RECURSIVE RStrip(_)
RStrip(t) ==
    IF t # "" /\ IsSpace(Ch(t, Len(t))) THEN RStrip(SubSeq(t, 1, Len(t) - 1)) ELSE t

\* str.strip()
Strip(t) == RStrip(LStrip(t))

\* str.startswith
StartsWith(t, prefix) ==
    Len(t) >= Len(prefix) /\ SubSeq(t, 1, Len(prefix)) = prefix

\* str.endswith
EndsWith(t, suffix) ==
    Len(t) >= Len(suffix) /\ SubSeq(t, Len(t) - Len(suffix) + 1, Len(t)) = suffix

\* len(t.split()): the number of maximal runs of non-whitespace characters
SplitLen(t) ==
    Cardinality({ i \in 1..Len(t) :
        /\ ~IsSpace(Ch(t, i))
        /\ (i = 1 \/ IsSpace(Ch(t, i - 1))) })

(***************************************************************************)
(* Intent classifier and signal detectors (keyword tables as in the        *)
(* source).                                                                *)
(***************************************************************************)
HiringKeywords == { "hiring", "interview", "role", "position", "candidate", "recruit" }

FounderKeywords ==
    { "startup", "founder", "cofounder", "cto", "fundraising", "seed", "series",
      "building", "product", "users", "customers" }

\* _classify_intent, were UNKNOWN returned when nothing matches
_classify_intent_UnknownDefault(user_text) ==
    LET t == Lower(user_text) IN
    IF AnyIn(t, HiringKeywords) THEN HIRING
    ELSE IF AnyIn(t, FounderKeywords) THEN FOUNDER
    ELSE UNKNOWN

\* _classify_intent, were the founder keywords checked first
_classify_intent_FounderFirst(user_text) ==
    LET t == Lower(user_text) IN
    IF AnyIn(t, FounderKeywords) THEN FOUNDER
    ELSE IF AnyIn(t, HiringKeywords) THEN HIRING
    ELSE EXPLORER

_classify_intent(user_text) ==
    LET t == Lower(user_text) IN
    IF AnyIn(t, HiringKeywords) THEN HIRING
    ELSE IF AnyIn(t, FounderKeywords) THEN FOUNDER
    ELSE EXPLORER

DepthKeywords ==
    { "details", "go deeper", "deep dive", "tell me more", "how does",
      "walk me through", "architecture", "design" }

_is_depth_request(user_text) == AnyIn(Lower(user_text), DepthKeywords)

EndKeywords ==
    { "bye", "goodbye", "good bye", "end the call", "end this call", "end call",
      "hang up", "that's all", "that is all", "we are done", "we're done" }

_wants_end(user_text) == AnyIn(Lower(user_text), EndKeywords)

BookingKeywords ==
    { "book", "schedule", "set up a call", "calendly", "calendar", "meeting" }

_wants_booking(user_text) == AnyIn(Lower(user_text), BookingKeywords)

soft_cta_triggers ==
    { "help", "work together", "collaborate", "fit", "hire", "bring him in",
      "interesting", "relevant", "sounds good", "makes sense" }

(***************************************************************************)
(* The user's messages: every sequence of at most MaxWords words of        *)
(* Vocabulary joined by single spaces, the same with surrounding           *)
(* whitespace, a message without text content and no message at all.       *)
(***************************************************************************)
Vocabulary == { "bye", "hang", "up", "Facebook", "details", "fit", "hiring", "startup" }

WordSeqs == UNION { [1..n -> Vocabulary] : n \in 0..MaxWords }

RECURSIVE Join(_)
Join(ws) ==
    IF Len(ws) = 0 THEN ""
    ELSE IF Len(ws) = 1 THEN ws[1]
    ELSE ws[1] \o " " \o Join(Tail(ws))

RawTexts ==
    { Join(ws) : ws \in WordSeqs }
        \cup { " " \o Join(ws) \o "  " : ws \in { w \in WordSeqs : Len(w) <= 1 } }

\* llm.ChatMessage | None, reduced to what _text reads
Messages ==
    { [present |-> FALSE, text_content |-> None],
      [present |-> TRUE, text_content |-> None] }
        \cup { [present |-> TRUE, text_content |-> t] : t \in RawTexts }

_text(msg) ==
    Strip(IF msg.present THEN Or(msg.text_content, "") ELSE "")

\* Everything on_user_turn_completed reads from user_text.
Analyse(user_text) ==
    [ nonempty      |-> user_text # "",
      wants_end     |-> _wants_end(user_text),
      nwords        |-> SplitLen(user_text),
      intent        |-> _classify_intent(user_text),
      wants_booking |-> _wants_booking(user_text),
      depth         |-> _is_depth_request(user_text),
      cta           |-> AnyIn(Lower(user_text), soft_cta_triggers) ]

\* The analyses of all messages (two messages with the same analysis are
\* routed identically).
TurnInputs == { Analyse(_text(m)) : m \in Messages }

NoTurn == [ nonempty |-> FALSE, wants_end |-> FALSE, nwords |-> 0 - 1,
            intent |-> UNKNOWN, wants_booking |-> FALSE, depth |-> FALSE,
            cta |-> FALSE ]

(***************************************************************************)
(* Layer 2: the per-turn instruction (_build_state_instruction), with the   *)
(* texts of the source.                                                    *)
(***************************************************************************)
\* lines 162-286, on the state and intent of lines 172-173
StateInstructionFor(state, intent) ==
    LET base ==
            "Voice output contract:\n- plain text only\n- 1 to 3 sentences by "
            \o "default\n- at most 1 question\n- calm, not salesy\n- no lists, markdown, "
            \o "emojis, or code\n"
    IN
    IF state = DISCOVER_INTENT THEN
        IF intent = FOUNDER THEN
            "You are in state: "
            \o state
            \o ". Intent: "
            \o intent
            \o ".\n"
            \o base
            \o "\nGoal: They are a founder evaluating an engineer to work with or "
            \o "hire. Mihir is not a co-founder. Your first 1-2 sentences MUST "
            \o "describe Mihir's experience as an engineer and how he could fit (e.g. "
            \o "ownership, backend, shipping). If they have already specified what "
            \o "role/responsibilities they're looking for (e.g. 'engineer for "
            \o "backend', 'help with systems'), respond directly to that match "
            \o "without asking any questions. Only ask 'what they're building' or "
            \o "'what problem they're solving' if they have NOT specified what "
            \o "role/responsibilities they need. CRITICAL: Do NOT ask for their name, "
            \o "email, or contact information. Do NOT call set_name, set_email, or "
            \o "any booking tools. Do NOT offer to schedule a call yet. Focus ONLY on "
            \o "describing Mihir's experience and fit."
        ELSE
            "You are in state: "
            \o state
            \o ". Intent guess: "
            \o intent
            \o ".\n"
            \o base
            \o "\nGoal for this turn: warmly discover why they're here. Ask one simple "
            \o "question if needed."
    ELSE IF state = VALUE_EXCHANGE THEN
        "You are in state: "
        \o state
        \o ". Intent: "
        \o intent
        \o ".\n"
        \o base
        \o "\nGoal for this turn: answer concisely, give just enough context, then "
        \o "offer one optional next step."
    ELSE IF state = OPTIONAL_DEPTH THEN
        "You are in state: "
        \o state
        \o ". Intent: "
        \o intent
        \o ".\n"
        \o base
        \o "\nGoal for this turn: go deeper only on what they asked, avoid "
        \o "info-dumping, then check if that helps."
    ELSE IF state = SOFT_CTA THEN
        "You are in state: "
        \o state
        \o ". Intent: "
        \o intent
        \o ".\n"
        \o base
        \o "\nGoal for this turn: gently offer a short call as an option, once, "
        \o "without pressure. Do not call set_name, set_email, or any tools. Do "
        \o "not ask for name, email, or any contact details. Your entire message "
        \o "must be only the offer. Example: 'If helpful, we could set up a short "
        \o "call with Mihir to explore fit.'"
    ELSE IF state = BOOKING_COLLECT_NAME_AND_EMAIL THEN
        "You are in booking state: "
        \o state
        \o ". You do not have the user's name and email stored yet.\n"
        \o base
        \o "\nCRITICAL: Do NOT call get_available_slots, book_meeting, or "
        \o "get_current_datetime in this turn. CRITICAL: Do NOT infer, guess, or "
        \o "make up names or emails. Only call set_name and set_email if the "
        \o "user's message explicitly contains both their full name AND email "
        \o "address. If the user has NOT provided both name and email in this "
        \o "message, do not call ANY tools; only reply with one message asking "
        \o "them to type their full name and email together (e.g. 'Please type "
        \o "your full name and email so we can set up the call.' or 'To get "
        \o "started, please share your full name and email address.'). You must "
        \o "collect name and email BEFORE showing available slots. Always ask for "
        \o "BOTH name and email together in a single request."
    ELSE IF state = BOOKING_TIME_RANGE THEN
        "You are in booking state: "
        \o state
        \o ".\n"
        \o base
        \o "\nCRITICAL: Do NOT call get_available_slots or book_meeting in this "
        \o "turn. Your only job is to ask the user for a date range (or a couple "
        \o "days) and their timezone. Example: 'When would you like to meet? Do "
        \o "you have a date range in mind?' Wait for the user to provide a date "
        \o "range before calling get_available_slots."
    ELSE IF state = BOOKING_PICK_SLOT THEN
        "You are in booking state: "
        \o state
        \o ".\n"
        \o base
        \o "\nGoal for this turn: call get_available_slots for the range, then "
        \o "offer a few options simply."
    ELSE IF state = BOOKING_CONFIRM_BOOKING THEN
        "You are in booking state: "
        \o state
        \o ".\n"
        \o base
        \o "\nGoal for this turn: restate date/time/timezone and ask for final "
        \o "confirmation before calling book_meeting."
    ELSE IF state = WARM_CLOSE THEN
        "You are in state: "
        \o state
        \o ".\n"
        \o base
        \o "\nGoal for this turn: close warmly and lightly. Do not push booking."
    ELSE IF state = RECOVERY THEN
        "You are in state: "
        \o state
        \o ".\n"
        \o base
        \o "\nGoal for this turn: acknowledge any confusion or silence, restate "
        \o "the gist in simpler terms, and offer one clear next option."
    ELSE IF state = END THEN
        "You are in state: "
        \o state
        \o ".\n"
        \o base
        \o "\nGoal for this turn: keep it to a short, warm sign-off. Do not "
        \o "introduce new topics."
    ELSE
        "You are in state: "
        \o state
        \o ". Intent: "
        \o intent
        \o ".\n"
        \o base
        \o "\nGoal for this turn: keep it helpful, brief, and move the "
        \o "conversation forward."

\* _build_state_instruction, were an empty state or intent not defaulted
_build_state_instruction_NoDefault(userdata) ==
    StateInstructionFor(userdata.state, userdata.intent_type)

\* _build_state_instruction, were the intent not looked at
_build_state_instruction_IntentBlind(userdata) ==
    StateInstructionFor(Or(userdata.state, DISCOVER_INTENT), UNKNOWN)

_build_state_instruction(userdata) ==
    StateInstructionFor(Or(userdata.state, DISCOVER_INTENT),
                        Or(userdata.intent_type, UNKNOWN))

(***************************************************************************)
(* Layer 3: the memory note (_build_memory_context); None when there is    *)
(* nothing to say.                                                         *)
(***************************************************************************)
MemoryHeader ==
    "Memory context (use lightly, with uncertainty hedges; never quote verbatim):\n"

\* lines 123-127
IntentBit(userdata) ==
    "From earlier in the conversation, they seem to be this intent type "
        \o "(not certain): " \o userdata.intent_type \o "."

\* lines 130-135
BookedBeforeBit ==
    "It looks like they may have booked a call with Mihir before. "
        \o "If you mention this, hedge with phrases like 'if I remember right' "
        \o "and do not be intense or salesy about it."

\* lines 140-150
BackgroundBit(company, domain) ==
    LET detail_parts ==
            (IF Truthy(company) THEN << "company: " \o company >> ELSE << >>)
                \o (IF Truthy(domain) THEN << "domain or area: " \o domain >> ELSE << >>)
        joined == IF Len(detail_parts) = 2
                  THEN detail_parts[1] \o ", " \o detail_parts[2]
                  ELSE detail_parts[1]
    IN  "They have previously shared a bit about their background; " \o joined
            \o ". Use this only when directly relevant, and never quote past turns verbatim."

\* "\n".join(f"- {b}" for b in bits)
RECURSIVE BulletLines(_)
BulletLines(bits) ==
    IF Len(bits) = 0 THEN ""
    ELSE IF Len(bits) = 1 THEN "- " \o bits[1]
    ELSE "- " \o bits[1] \o "\n" \o BulletLines(Tail(bits))

\* lines 118-150: the bits composed from the session's own fields
MemoryBits(userdata) ==
    (IF userdata.intent_type # UNKNOWN THEN << IntentBit(userdata) >> ELSE << >>)
        \o (IF userdata.booked_before THEN << BookedBeforeBit >> ELSE << >>)
        \o (IF Truthy(userdata.company) \/ Truthy(userdata.domain)
            THEN << BackgroundBit(userdata.company, userdata.domain) >> ELSE << >>)

\* _build_memory_context, were the hint added to the composed bits
_build_memory_context_HintAndBits(userdata) ==
    LET hint == IF Truthy(userdata.memory_hint) THEN Strip(userdata.memory_hint) ELSE ""
        bits == (IF hint # "" THEN << hint >> ELSE << >>) \o MemoryBits(userdata)
    IN  IF Len(bits) = 0 THEN None ELSE MemoryHeader \o BulletLines(bits)

_build_memory_context(userdata) ==
    LET hint == IF Truthy(userdata.memory_hint) THEN Strip(userdata.memory_hint) ELSE ""
        bits == MemoryBits(userdata)
    IN  IF hint # "" THEN MemoryHeader \o "- " \o hint
        ELSE IF Len(bits) = 0 THEN None
        ELSE MemoryHeader \o BulletLines(bits)

(***************************************************************************)
(* BookingUserData (company, domain and memory_hint are never written by   *)
(* the agent and are left out) and the router.                             *)
(***************************************************************************)
booking_states ==
    { BOOKING_COLLECT_NAME_AND_EMAIL, BOOKING_TIME_RANGE, BOOKING_PICK_SLOT,
      BOOKING_CONFIRM_BOOKING }

\* EndSignal, were a booking phrase to take precedence over it
EndSignal_UnlessBooking(a) == a.nonempty /\ a.wants_end /\ ~a.wants_booking

\* lines 331-333: an end-signal sets END and latches _end_requested
EndSignal(a) == a.nonempty /\ a.wants_end

\* IntentAfter, were HIRING and FOUNDER kept against EXPLORER
IntentAfter_KeepSpecific(ud, a) ==
    IF a.nonempty /\ a.nwords >= 3
          /\ ~(a.intent = EXPLORER /\ ud.intent_type \in { HIRING, FOUNDER })
    THEN a.intent ELSE ud.intent_type

\* IntentAfter, were two words enough to reclassify
IntentAfter_TwoWords(ud, a) ==
    IF a.nonempty /\ a.nwords >= 2 THEN a.intent ELSE ud.intent_type

\* lines 335-337: only utterances of at least 3 words reclassify the intent
IntentAfter(ud, a) ==
    IF a.nonempty /\ a.nwords >= 3 THEN a.intent ELSE ud.intent_type

\* BookingTarget, were one stored field enough
BookingTarget_EitherField(ud) ==
    IF ~Truthy(ud.name) /\ ~Truthy(ud.email) THEN BOOKING_COLLECT_NAME_AND_EMAIL
    ELSE BOOKING_TIME_RANGE

\* BookingTarget, were only the name looked at
BookingTarget_NameOnly(ud) ==
    IF ~Truthy(ud.name) THEN BOOKING_COLLECT_NAME_AND_EMAIL ELSE BOOKING_TIME_RANGE

\* BookingTarget, were a caller with both fields sent on to pick a slot
BookingTarget_PickSlot(ud) ==
    IF ~Truthy(ud.name) \/ ~Truthy(ud.email) THEN BOOKING_COLLECT_NAME_AND_EMAIL
    ELSE BOOKING_PICK_SLOT

\* lines 358-363: the booking sub-phase a booking request leads to
BookingTarget(ud) ==
    IF ~Truthy(ud.name) \/ ~Truthy(ud.email) THEN BOOKING_COLLECT_NAME_AND_EMAIL
    ELSE BOOKING_TIME_RANGE

\* BaseRoute, were the prior phase looked at before the depth request
BaseRoute_DiscoverFirst(s, a) ==
    IF ~a.nonempty THEN RECOVERY
    ELSE IF s \in { GREETING, DISCOVER_INTENT } THEN DISCOVER_INTENT
    ELSE IF a.depth THEN OPTIONAL_DEPTH
    ELSE VALUE_EXCHANGE

\* lines 369-379: ordinary routing
BaseRoute(s, a) ==
    IF ~a.nonempty THEN RECOVERY
    ELSE IF a.depth THEN OPTIONAL_DEPTH
    ELSE IF s \in { GREETING, DISCOVER_INTENT } THEN DISCOVER_INTENT
    ELSE VALUE_EXCHANGE

\* SoftCtaFires, were the offer not capped
SoftCtaFires_Uncapped(ud, a) ==
    /\ a.nonempty
    /\ ud.state # DISCOVER_INTENT
    /\ ud.intent_type # FOUNDER
    /\ a.cta

\* SoftCtaFires, were DISCOVER_INTENT not exempt
SoftCtaFires_AnyPhase(ud, a) ==
    /\ a.nonempty
    /\ ud.booking_offer_count < 1
    /\ ud.intent_type # FOUNDER
    /\ a.cta

\* lines 395-398: the soft-CTA gate, evaluated on the state already routed
SoftCtaFires(ud, a) ==
    /\ a.nonempty
    /\ ud.booking_offer_count < 1
    /\ ud.state # DISCOVER_INTENT
    /\ ud.intent_type # FOUNDER
    /\ a.cta

\* RoutePhase, were the booking sub-phases not sticky
RoutePhase_NotSticky(ud, a) ==
    IF a.wants_booking THEN [ud EXCEPT !.state = BookingTarget(ud)]
    ELSE LET r == [ud EXCEPT !.state = BaseRoute(ud.state, a)] IN
         IF SoftCtaFires(r, a)
         THEN [r EXCEPT !.state = SOFT_CTA,
                        !.booking_offer_count = r.booking_offer_count + 1]
         ELSE r

\* lines 357-400: the phase decision for a session that is not in END
RoutePhase(ud, a) ==
    IF a.wants_booking THEN [ud EXCEPT !.state = BookingTarget(ud)]
    ELSE IF ud.state \in booking_states THEN ud
    ELSE LET r == [ud EXCEPT !.state = BaseRoute(ud.state, a)] IN
         IF SoftCtaFires(r, a)
         THEN [r EXCEPT !.state = SOFT_CTA,
                        !.booking_offer_count = r.booking_offer_count + 1]
         ELSE r

\* on_user_turn_completed on (userdata, self._end_requested): the new
\* userdata, the new _end_requested and whether _close_after_delay is spawned
Route(ud, er, a) ==
    LET ud1 == [ud EXCEPT !.state = IF EndSignal(a) THEN END ELSE ud.state]
        er1 == IF EndSignal(a) THEN TRUE ELSE er
        ud2 == [ud1 EXCEPT !.intent_type = IntentAfter(ud1, a)]
    IN  IF ud2.state = END
        THEN [ud |-> ud2, end_requested |-> er1, spawn |-> er1]
        ELSE [ud |-> RoutePhase(ud2, a), end_requested |-> er1, spawn |-> FALSE]

(***************************************************************************)
(* Outcomes of a Python call: a returned value or a raised exception.      *)
(* `sent` tells whether an HTTP request went out to Cal.com.               *)
(***************************************************************************)
Return(v, sent) == [exc |-> FALSE, val |-> v, sent |-> sent]

Raise(e, sent) == [exc |-> TRUE, val |-> e, sent |-> sent]

(***************************************************************************)
(* Dates, times and zones as the Cal.com client parses and prints them     *)
(* (datetime.strptime, datetime.fromisoformat, ZoneInfo, astimezone,       *)
(* strftime and the f-string formats of agents/tools/cal_com_booking.py).  *)
(***************************************************************************)
IsDigit(c) == c \in { "0", "1", "2", "3", "4", "5", "6", "7", "8", "9" }

NonZeroDigit(c) == IsDigit(c) /\ c # "0"

DigitValue(c) == CHOOSE n \in 0..9 : Ch("0123456789", n + 1) = c

\* int(t), t made of digits after leading spaces
RECURSIVE ToInt(_)
ToInt(t) ==
    IF t = "" THEN 0
    ELSE IF Ch(t, 1) = " " THEN ToInt(SubSeq(t, 2, Len(t)))
    ELSE ToInt(SubSeq(t, 1, Len(t) - 1)) * 10 + DigitValue(Ch(t, Len(t)))

\* f"{n}" for n in 0..99
Str(n) ==
    IF n < 10 THEN Ch("0123456789", n + 1)
    ELSE Ch("0123456789", (n \div 10) + 1) \o Ch("0123456789", (n % 10) + 1)

\* f"{n:02d}" and strftime's two-digit fields, n in 0..99
Pad2(n) == Ch("0123456789", (n \div 10) + 1) \o Ch("0123456789", (n % 10) + 1)

\* strftime("%Y") of a four-digit year
Pad4(n) == Pad2(n \div 100) \o Pad2(n % 100)

UpperCh(c) ==
    IF \E u \in DOMAIN UpperToLower : UpperToLower[u] = c
    THEN CHOOSE u \in DOMAIN UpperToLower : UpperToLower[u] = c
    ELSE c

\* str.upper()
RECURSIVE Upper(_)
Upper(t) == IF t = "" THEN "" ELSE UpperCh(Ch(t, 1)) \o Upper(SubSeq(t, 2, Len(t)))

\* t.replace(old, new), old not empty
RECURSIVE Replace(_, _, _)
Replace(t, old, new) ==
    IF Len(t) < Len(old) THEN t
    ELSE IF SubSeq(t, 1, Len(old)) = old
         THEN new \o Replace(SubSeq(t, Len(old) + 1, Len(t)), old, new)
    ELSE Ch(t, 1) \o Replace(SubSeq(t, 2, Len(t)), old, new)

\* t[:n]
Prefix(t, n) == IF Len(t) <= n THEN t ELSE SubSeq(t, 1, n)

\* str(e) of an exception written "Type: text"
RECURSIVE ExcText(_)
ExcText(e) ==
    IF Len(e) < 2 THEN e
    ELSE IF SubSeq(e, 1, 2) = ": " THEN SubSeq(e, 3, Len(e))
    ELSE ExcText(SubSeq(e, 2, Len(e)))

\* isinstance(e, ValueError)
IsValueError(e) == Len(e) >= 10 /\ SubSeq(e, 1, 10) = "ValueError"

\* The text a strptime directive matches (the regular expressions of the
\* standard library: %Y four digits; %m and %I 1[0-2]|0[1-9]|[1-9];
\* %d 3[0-1]|[1-2]\d|0[1-9]|[1-9]| [1-9]; %H 2[0-3]|[0-1]\d|\d;
\* %M [0-5]\d|\d; %S 6[0-1]|[0-5]\d|\d; %p am|pm in any case).
FieldMatches(item, f) ==
    CASE item = "%Y" -> Len(f) = 4 /\ \A i \in 1..4 : IsDigit(Ch(f, i))
      [] item \in { "%m", "%I" } ->
            \/ Len(f) = 2 /\ Ch(f, 1) = "1" /\ Ch(f, 2) \in { "0", "1", "2" }
            \/ Len(f) = 2 /\ Ch(f, 1) = "0" /\ NonZeroDigit(Ch(f, 2))
            \/ Len(f) = 1 /\ NonZeroDigit(f)
      [] item = "%d" ->
            \/ Len(f) = 2 /\ Ch(f, 1) = "3" /\ Ch(f, 2) \in { "0", "1" }
            \/ Len(f) = 2 /\ Ch(f, 1) \in { "1", "2" } /\ IsDigit(Ch(f, 2))
            \/ Len(f) = 2 /\ Ch(f, 1) = "0" /\ NonZeroDigit(Ch(f, 2))
            \/ Len(f) = 1 /\ NonZeroDigit(f)
            \/ Len(f) = 2 /\ Ch(f, 1) = " " /\ NonZeroDigit(Ch(f, 2))
      [] item = "%H" ->
            \/ Len(f) = 2 /\ Ch(f, 1) = "2" /\ Ch(f, 2) \in { "0", "1", "2", "3" }
            \/ Len(f) = 2 /\ Ch(f, 1) \in { "0", "1" } /\ IsDigit(Ch(f, 2))
            \/ Len(f) = 1 /\ IsDigit(f)
      [] item = "%M" ->
            \/ Len(f) = 2 /\ Ch(f, 1) \in { "0", "1", "2", "3", "4", "5" }
                          /\ IsDigit(Ch(f, 2))
            \/ Len(f) = 1 /\ IsDigit(f)
      [] item = "%S" ->
            \/ Len(f) = 2 /\ Ch(f, 1) = "6" /\ Ch(f, 2) \in { "0", "1" }
            \/ Len(f) = 2 /\ Ch(f, 1) \in { "0", "1", "2", "3", "4", "5" }
                          /\ IsDigit(Ch(f, 2))
            \/ Len(f) = 1 /\ IsDigit(f)
      [] item = "%p" -> Lower(f) \in { "am", "pm" }
      [] OTHER -> f = item

\* the longest text a format item can match
FieldWidth(item) == IF item = "%Y" THEN 4 ELSE IF Len(item) = 2 THEN 2 ELSE 1

\* The ways data_string matches the whole format: the texts of its items, in
\* order.  Empty when strptime raises "does not match format" or
\* "unconverted data remains".
RECURSIVE FieldsOf(_, _)
FieldsOf(data_string, format) ==
    IF format = << >> THEN (IF data_string = "" THEN { << >> } ELSE {})
    ELSE UNION { { << SubSeq(data_string, 1, k) >> \o rest :
                      rest \in FieldsOf(SubSeq(data_string, k + 1, Len(data_string)),
                                        Tail(format)) } :
                 k \in { j \in 1..FieldWidth(Head(format)) :
                            /\ j <= Len(data_string)
                            /\ FieldMatches(Head(format), SubSeq(data_string, 1, j)) } }

\* datetime(1900, 1, 1): what strptime starts from
Epoch1900 ==
    [ year |-> 1900, month |-> 1, day |-> 1, hour |-> 0, minute |-> 0,
      second |-> 0, ampm |-> "", aware |-> FALSE, utcoffset |-> 0 ]

RECURSIVE FieldValues(_, _, _)
FieldValues(dt, format, fields) ==
    IF format = << >> THEN dt
    ELSE LET item == Head(format)
             f    == Head(fields)
             dt1  == CASE item = "%Y" -> [dt EXCEPT !.year = ToInt(f)]
                       [] item = "%m" -> [dt EXCEPT !.month = ToInt(f)]
                       [] item = "%d" -> [dt EXCEPT !.day = ToInt(f)]
                       [] item \in { "%H", "%I" } -> [dt EXCEPT !.hour = ToInt(f)]
                       [] item = "%M" -> [dt EXCEPT !.minute = ToInt(f)]
                       [] item = "%S" -> [dt EXCEPT !.second = ToInt(f)]
                       [] item = "%p" -> [dt EXCEPT !.ampm = Lower(f)]
                       [] OTHER -> dt
         IN  FieldValues(dt1, Tail(format), Tail(fields))

IsLeap(year) == year % 4 = 0 /\ (year % 100 # 0 \/ year % 400 = 0)

DaysInMonth(year, month) ==
    IF month = 2 THEN (IF IsLeap(year) THEN 29 ELSE 28)
    ELSE IF month \in { 4, 6, 9, 11 } THEN 30
    ELSE 31

\* datetime(...) of the fields strptime has read: the hour of the 12-hour
\* clock is moved by its AM or PM, and a value outside the calendar is a
\* ValueError
MakeDatetime(dt) ==
    LET hour == IF dt.ampm = "am" /\ dt.hour = 12 THEN 0
                ELSE IF dt.ampm = "pm" /\ dt.hour # 12 THEN dt.hour + 12
                ELSE dt.hour
    IN  IF dt.year = 0 THEN Raise("ValueError: year 0 is out of range", FALSE)
        ELSE IF dt.day > DaysInMonth(dt.year, dt.month)
             THEN Raise("ValueError: day is out of range for month", FALSE)
        ELSE IF dt.second > 59
             THEN Raise("ValueError: second must be in 0..59", FALSE)
        ELSE Return([dt EXCEPT !.hour = hour], FALSE)

\* datetime.strptime(data_string, format), the format given item by item
strptime(data_string, format) ==
    IF FieldsOf(data_string, format) = {}
    THEN Raise("ValueError: time data '" \o data_string \o "' does not match format", FALSE)
    ELSE MakeDatetime(FieldValues(Epoch1900, format,
                                  CHOOSE p \in FieldsOf(data_string, format) : TRUE))

\* The zones of the model's time zone database with their UTC offsets in
\* minutes; none of them changes its offset in the years of the model.
ZoneOffset ==
    [ z \in { "UTC", "Asia/Kolkata", "Asia/Kathmandu", "America/Phoenix",
              "Pacific/Kiritimati", "Pacific/Pago_Pago" } |->
        CASE z = "UTC" -> 0
          [] z = "Asia/Kolkata" -> 330
          [] z = "Asia/Kathmandu" -> 345
          [] z = "America/Phoenix" -> 0 - 420
          [] z = "Pacific/Kiritimati" -> 840
          [] z = "Pacific/Pago_Pago" -> 0 - 660 ]

KnownZones == DOMAIN ZoneOffset

\* ZoneInfo(key)
ZoneInfo(key) ==
    IF key = ""
    THEN Raise("ValueError: ZoneInfo keys must be normalized relative paths, got: ", FALSE)
    ELSE IF key \notin KnownZones
         THEN Raise("ZoneInfoNotFoundError: 'No time zone found with key " \o key \o "'",
                    FALSE)
    ELSE Return(key, FALSE)

\* the day before and the day after a date
PrevDay(dt) ==
    IF dt.day > 1 THEN [dt EXCEPT !.day = dt.day - 1]
    ELSE IF dt.month > 1
         THEN [dt EXCEPT !.month = dt.month - 1,
                         !.day = DaysInMonth(dt.year, dt.month - 1)]
    ELSE [dt EXCEPT !.year = dt.year - 1, !.month = 12, !.day = 31]

NextDay(dt) ==
    IF dt.day < DaysInMonth(dt.year, dt.month) THEN [dt EXCEPT !.day = dt.day + 1]
    ELSE IF dt.month < 12 THEN [dt EXCEPT !.month = dt.month + 1, !.day = 1]
    ELSE [dt EXCEPT !.year = dt.year + 1, !.month = 1, !.day = 1]

\* dt + timedelta(minutes=delta), for delta within a day either way
AddMinutes(dt, delta) ==
    LET total == dt.hour * 60 + dt.minute + delta
        day   == IF total < 0 THEN PrevDay(dt)
                 ELSE IF total >= 1440 THEN NextDay(dt)
                 ELSE dt
        t     == total % 1440
    IN  [day EXCEPT !.hour = t \div 60, !.minute = t % 60]

\* dt.astimezone(ZoneInfo(key)) of a dt with a tzinfo; OverflowError outside the
\* years 1..9999
astimezone(dt, key) ==
    LET moved == AddMinutes(AddMinutes(dt, 0 - dt.utcoffset), ZoneOffset[key]) IN
    IF moved.year \notin 1..9999
    THEN Raise("OverflowError: date value out of range", FALSE)
    ELSE Return([moved EXCEPT !.aware = TRUE, !.utcoffset = ZoneOffset[key]], FALSE)

\* dt.strftime("%Y-%m-%dT%H:%M:%SZ")
strftime(dt) ==
    Pad4(dt.year) \o "-" \o Pad2(dt.month) \o "-" \o Pad2(dt.day) \o "T"
        \o Pad2(dt.hour) \o ":" \o Pad2(dt.minute) \o ":" \o Pad2(dt.second) \o "Z"

\* _parse_time (lines 24-32)
_parse_time(time_str) ==
    LET upper == Upper(Strip(time_str)) IN
    IF Contains(upper, "AM") \/ Contains(upper, "PM")
    THEN strptime(Replace(upper, " ", ""), << "%I", ":", "%M", "%p" >>)
    ELSE strptime(upper, << "%H", ":", "%M" >>)

\* lines 42-46 of _build_start_utc_iso: the start in UTC, from the date, the
\* time and the zone as they were read
StartUtcIso(base_date, t, tz) ==
    IF t.exc THEN t
    ELSE IF tz.exc THEN tz
    ELSE LET local_dt == [base_date.val EXCEPT !.hour = t.val.hour,
                                               !.minute = t.val.minute,
                                               !.second = 0, !.aware = TRUE,
                                               !.utcoffset = ZoneOffset[tz.val]]
             utc_dt   == astimezone(local_dt, "UTC")
         IN  IF utc_dt.exc THEN utc_dt ELSE Return(strftime(utc_dt.val), FALSE)

\* _build_start_utc_iso (lines 35-46)
_build_start_utc_iso(date_str, time_str, timezone_str) ==
    IF strptime(Strip(date_str), << "%Y", "-", "%m", "-", "%d" >>).exc
    THEN Raise("ValueError: Date must be YYYY-MM-DD, got: " \o Strip(date_str), FALSE)
    ELSE StartUtcIso(strptime(Strip(date_str), << "%Y", "-", "%m", "-", "%d" >>),
                     _parse_time(time_str), ZoneInfo(timezone_str))

\* The datetime of an ISO string whose date (head) and time of day (clock)
\* have been read: what follows them is an optional fraction of digits and an
\* optional "+HH:MM" or "-HH:MM" offset.
IsoDatetime(date_string, head, clock) ==
    LET tail    == SubSeq(date_string, 20, Len(date_string))
        fracLen == IF tail # "" /\ Ch(tail, 1) = "."
                   THEN CHOOSE n \in 1..Len(tail) :
                           /\ \A i \in 2..n : IsDigit(Ch(tail, i))
                           /\ (n = Len(tail) \/ ~IsDigit(Ch(tail, n + 1)))
                   ELSE 0
        zone    == SubSeq(tail, fracLen + 1, Len(tail))
        offset  == strptime(SubSeq(zone, 2, Len(zone)), << "%H", ":", "%M" >>)
        dt      == [head.val EXCEPT !.hour = clock.val.hour,
                                    !.minute = clock.val.minute,
                                    !.second = clock.val.second]
    IN  IF head.exc \/ clock.exc \/ fracLen = 1
        THEN Raise("ValueError: Invalid isoformat string: '" \o date_string \o "'", FALSE)
        ELSE IF zone = "" THEN Return(dt, FALSE)
        ELSE IF Len(zone) # 6 \/ Ch(zone, 1) \notin { "+", "-" }
                  \/ ~IsDigit(Ch(zone, 2)) \/ ~IsDigit(Ch(zone, 3))
                  \/ ~IsDigit(Ch(zone, 5)) \/ ~IsDigit(Ch(zone, 6)) \/ offset.exc
             THEN Raise("ValueError: Invalid isoformat string: '" \o date_string \o "'",
                        FALSE)
        ELSE Return([dt EXCEPT !.aware = TRUE,
                               !.utcoffset =
                                   IF Ch(zone, 1) = "-"
                                   THEN 0 - (offset.val.hour * 60 + offset.val.minute)
                                   ELSE offset.val.hour * 60 + offset.val.minute],
                    FALSE)

\* datetime.fromisoformat of "YYYY-MM-DDxHH:MM:SS", an optional fraction of
\* digits and an optional "+HH:MM" or "-HH:MM" offset; anything else is taken
\* to raise ValueError.
fromisoformat(date_string) ==
    IF \/ Len(date_string) < 19
       \/ \E i \in { 1, 2, 3, 4, 6, 7, 9, 10, 12, 13, 15, 16, 18, 19 } :
             ~IsDigit(Ch(date_string, i))
    THEN Raise("ValueError: Invalid isoformat string: '" \o date_string \o "'", FALSE)
    ELSE IsoDatetime(date_string,
                     strptime(Prefix(date_string, 10), << "%Y", "-", "%m", "-", "%d" >>),
                     strptime(SubSeq(date_string, 12, 19), << "%H", ":", "%M", ":", "%S" >>))

\* lines 53-59 of _format_slot_time: the start as a datetime
SlotStart(iso_start) ==
    IF Contains(iso_start, "+") \/ EndsWith(iso_start, "Z")
    THEN fromisoformat(Replace(iso_start, "Z", "+00:00"))
    ELSE strptime(Prefix(iso_start, 19),
                  << "%Y", "-", "%m", "-", "%d", "T", "%H", ":", "%M", ":", "%S" >>)

\* lines 67-74 of _format_slot_time: hour h and minute m as a 12-hour label
SlotLabel(h, m) ==
    IF h = 0 THEN "12:" \o Pad2(m) \o " AM"
    ELSE IF h < 12 THEN Str(h) \o ":" \o Pad2(m) \o " AM"
    ELSE IF h = 12 THEN "12:" \o Pad2(m) \o " PM"
    ELSE Str(h - 12) \o ":" \o Pad2(m) \o " PM"

\* lines 60-76 of _format_slot_time: the label in zone tz of a start that was
\* read (parsed), or the start's first 16 characters when anything raised
SlotLabelIn(iso_start, parsed, tz) ==
    LET dt_utc   == IF ~parsed.val.aware
                    THEN [parsed.val EXCEPT !.aware = TRUE, !.utcoffset = 0]
                    ELSE parsed.val
        dt_local == astimezone(dt_utc, tz)
    IN  IF parsed.exc \/ dt_local.exc
        THEN Replace(Prefix(iso_start, 16), "T", " ")
        ELSE SlotLabel(dt_local.val.hour, dt_local.val.minute)

\* _format_slot_time, were the start labelled as it is given, in UTC
_format_slot_time_InUtc(iso_start, timezone) ==
    SlotLabelIn(iso_start, SlotStart(iso_start), "UTC")

\* _format_slot_time (lines 49-76)
_format_slot_time(iso_start, timezone) ==
    SlotLabelIn(iso_start, SlotStart(iso_start),
                IF ZoneInfo(timezone).exc THEN "Asia/Kolkata" ELSE timezone)

(***************************************************************************)
(* The Cal.com client (agents/tools/cal_com_booking.py).  Its environment: *)
(* whether the API key and event type are configured, and what the HTTP    *)
(* request does (raises, or answers with a status and a body).             *)
(***************************************************************************)
HttpResponses ==
    { [status |-> 200, json |-> TRUE,  ok |-> TRUE,  message |-> None, filled |-> TRUE],
      [status |-> 200, json |-> TRUE,  ok |-> TRUE,  message |-> None, filled |-> FALSE],
      [status |-> 200, json |-> TRUE,  ok |-> FALSE, message |-> None, filled |-> FALSE],
      [status |-> 200, json |-> FALSE, ok |-> FALSE, message |-> None, filled |-> FALSE],
      [status |-> 409, json |-> TRUE,  ok |-> FALSE, message |-> "no longer available", filled |-> FALSE],
      [status |-> 500, json |-> FALSE, ok |-> FALSE, message |-> None, filled |-> FALSE] }

\* the response used where none is read
NoResponse == CHOOSE r \in HttpResponses : r.filled

\* the environment of a call that has no use for Cal.com
NoEnv == [configured |-> TRUE, raises |-> FALSE, resp |-> NoResponse]

CalcomEnvs ==
    { [configured |-> FALSE, raises |-> FALSE, resp |-> NoResponse],
      [configured |-> TRUE, raises |-> TRUE, resp |-> NoResponse] }
        \cup { [configured |-> TRUE, raises |-> FALSE, resp |-> r] : r \in HttpResponses }

\* resp.text
ResponseText(resp) == IF resp.json THEN "{...}" ELSE "<html>Server Error</html>"

\* lines 121-125 / 215-219: the message extracted from an error response
ErrorMessage(resp) ==
    IF resp.json /\ resp.message # None THEN resp.message ELSE ResponseText(resp)

\* ", ".join(ws)
RECURSIVE JoinWith(_, _)
JoinWith(ws, sep) ==
    IF Len(ws) = 0 THEN ""
    ELSE IF Len(ws) = 1 THEN ws[1]
    ELSE ws[1] \o sep \o JoinWith(Tail(ws), sep)

\* The "data" of a response that carries slots, in the order of its date
\* keys: Cal.com gives each slot's start in UTC.  One day has no slot.
SlotsByDate ==
    << [ date_key |-> "2025-02-21",
         slots |-> << "2025-02-21T09:00:00.000Z", "2025-02-21T14:00:00.000Z" >> ],
       [ date_key |-> "2025-02-22", slots |-> << >> ] >>

\* lines 151-155: the labels of a day's slots that have a start
SlotTimes(slots, timezone) ==
    LET started == SelectSeq(slots, LAMBDA s : s # "") IN
    [ i \in 1..Len(started) |-> _format_slot_time(started[i], timezone) ]

\* The listing of lines 146-157: one sentence per day that has slots.
SlotListing(slots_by_date, timezone) ==
    LET days == SelectSeq(slots_by_date,
                          LAMBDA e : SlotTimes(e.slots, timezone) # << >>)
    IN  [ i \in 1..Len(days) |->
            "On " \o days[i].date_key \o " available times are: "
                \o JoinWith(SlotTimes(days[i].slots, timezone), ", ") \o "." ]

\* calcom_get_available_slots, were an error status raised (raise_for_status)
calcom_get_available_slots_RaiseForStatus(start_date, end_date, timezone, env) ==
    IF ~env.configured THEN Raise("ValueError", FALSE)
    ELSE IF env.raises THEN Raise("httpx.HTTPError", TRUE)
    ELSE IF env.resp.status >= 400 THEN Raise("httpx.HTTPStatusError", TRUE)
    ELSE IF ~env.resp.json THEN Raise("JSONDecodeError", TRUE)
    ELSE IF ~env.resp.ok THEN Return("Could not fetch slots: unexpected response.", TRUE)
    ELSE IF ~env.resp.filled
         THEN Return("No available slots between " \o start_date \o " and " \o end_date \o ".", TRUE)
    ELSE IF SlotListing(SlotsByDate, timezone) = << >>
         THEN Return("No available slots between " \o start_date \o " and " \o end_date \o ".", TRUE)
    ELSE Return(JoinWith(SlotListing(SlotsByDate, timezone), " "), TRUE)

\* cal_com_booking.get_available_slots
calcom_get_available_slots(start_date, end_date, timezone, env) ==
    IF ~env.configured THEN Raise("ValueError", FALSE)
    ELSE IF env.raises THEN Raise("httpx.HTTPError", TRUE)
    ELSE IF env.resp.status >= 400
         THEN Return("Could not fetch slots: " \o ErrorMessage(env.resp), TRUE)
    ELSE IF ~env.resp.json THEN Raise("JSONDecodeError", TRUE)
    ELSE IF ~env.resp.ok THEN Return("Could not fetch slots: unexpected response.", TRUE)
    ELSE IF ~env.resp.filled
         THEN Return("No available slots between " \o start_date \o " and " \o end_date \o ".", TRUE)
    ELSE IF SlotListing(SlotsByDate, timezone) = << >>
         THEN Return("No available slots between " \o start_date \o " and " \o end_date \o ".", TRUE)
    ELSE Return(JoinWith(SlotListing(SlotsByDate, timezone), " "), TRUE)

\* cal_com_booking.create_calcom_booking
create_calcom_booking(attendee_name, attendee_email, timezone, start, notes, env) ==
    IF ~env.configured THEN Raise("ValueError", FALSE)
    ELSE IF env.raises THEN Raise("httpx.HTTPError", TRUE)
    ELSE IF env.resp.status >= 400
         THEN Return("Booking failed: " \o ErrorMessage(env.resp), TRUE)
    ELSE IF ~env.resp.json THEN Raise("JSONDecodeError", TRUE)
    ELSE Return("Meeting booked successfully for " \o start
                    \o ". Confirmation has been sent to " \o attendee_email \o ".", TRUE)

\* book_meeting, were the booking posted with the date and time as given and
\* the start built afterwards
calcom_book_meeting_PostsFirst(attendee_name, attendee_email, date, time_slot, timezone, notes, env) ==
    LET start_utc == _build_start_utc_iso(date, time_slot, timezone)
        posted    == create_calcom_booking(attendee_name, attendee_email, timezone,
                                           date \o "T" \o time_slot, notes, env)
    IN  IF start_utc.exc /\ IsValueError(start_utc.val)
        THEN Return("Invalid date or time: " \o ExcText(start_utc.val), posted.sent)
        ELSE IF start_utc.exc
             THEN Return("Invalid timezone or time: " \o ExcText(start_utc.val),
                         posted.sent)
        ELSE create_calcom_booking(attendee_name, attendee_email, timezone,
                                   start_utc.val, notes, env)

\* cal_com_booking.book_meeting
calcom_book_meeting(attendee_name, attendee_email, date, time_slot, timezone, notes, env) ==
    LET start_utc == _build_start_utc_iso(date, time_slot, timezone) IN
    IF start_utc.exc /\ IsValueError(start_utc.val)
    THEN Return("Invalid date or time: " \o ExcText(start_utc.val), FALSE)
    ELSE IF start_utc.exc
         THEN Return("Invalid timezone or time: " \o ExcText(start_utc.val), FALSE)
    ELSE create_calcom_booking(attendee_name, attendee_email, timezone,
                               start_utc.val, notes, env)

(***************************************************************************)
(* The function tools of PortfolioAssistant.  Each yields the new          *)
(* userdata, the outcome handed to the LLM and what became of the Cal.com  *)
(* delegate ("not_called", "returned" or "raised").                        *)
(***************************************************************************)
ToolResult(ud, out, delegate) == [ud |-> ud, out |-> out, delegate |-> delegate]

\* datetime.now(tz) of the model's clock
Now(tz) ==
    IF tz = "Asia/Kolkata"
    THEN [date |-> "2025-02-20", weekday |-> "Thursday", time |-> "19:30"]
    ELSE [date |-> "2025-02-20", weekday |-> "Thursday", time |-> "14:00"]

get_current_datetime(ud, timezone) ==
    LET z   == ZoneInfo(timezone)
        tz  == IF z.exc THEN "UTC" ELSE z.val
        now == Now(tz)
    IN  ToolResult(ud,
            Return("Current date: " \o now.date \o " (" \o now.weekday \o "). "
                       \o "Current time: " \o now.time \o " " \o timezone \o ".", FALSE),
            "not_called")

set_name(ud, value) ==
    LET ud1 == [ud EXCEPT !.name = Strip(value)] IN
    ToolResult(ud1, Return("Got it, I have your name as " \o ud1.name \o ".", FALSE),
               "not_called")

\* set_email, were it to store the email only
set_email_KeepsPhase(ud, value) ==
    LET ud1 == [ud EXCEPT !.email = Strip(value)] IN
    ToolResult(ud1, Return("Got it, I have your email as " \o ud1.email \o ".", FALSE),
               "not_called")

set_email(ud, value) ==
    LET ud1 == [ud EXCEPT !.email = Strip(value)]
        ud2 == IF ud1.state = BOOKING_COLLECT_NAME_AND_EMAIL
               THEN [ud1 EXCEPT !.state = BOOKING_TIME_RANGE]
               ELSE ud1
    IN  ToolResult(ud2, Return("Got it, I have your email as " \o ud2.email \o ".", FALSE),
                   "not_called")

SlotsErrorGuidance ==
    "ERROR: get_available_slots failed due to a booking system or configuration issue. "
        \o "When you respond to the user, briefly apologize once, explain that the booking "
        \o "system is having trouble, and offer a simple fallback like suggesting a couple "
        \o "of days and times they can mention, or letting them follow up over email instead."

\* get_available_slots, were the delegate called outside try/except
get_available_slots_Unguarded(ud, start_date, end_date, timezone, env) ==
    LET d == calcom_get_available_slots(start_date, end_date, timezone, env) IN
    ToolResult(ud, d, IF d.exc THEN "raised" ELSE "returned")

\* get_available_slots, were the stored contact required first
get_available_slots_NeedsContact(ud, start_date, end_date, timezone, env) ==
    LET d == calcom_get_available_slots(start_date, end_date, timezone, env) IN
    IF ~Truthy(ud.name) \/ ~Truthy(ud.email)
    THEN ToolResult(ud, Return("Ask for the name and email first.", FALSE), "not_called")
    ELSE IF d.exc
         THEN ToolResult(ud, Return(SlotsErrorGuidance, d.sent), "raised")
         ELSE ToolResult(ud, Return(d.val, d.sent), "returned")

get_available_slots(ud, start_date, end_date, timezone, env) ==
    LET d == calcom_get_available_slots(start_date, end_date, timezone, env) IN
    IF d.exc
    THEN ToolResult(ud, Return(SlotsErrorGuidance, d.sent), "raised")
    ELSE ToolResult(ud, Return(d.val, d.sent), "returned")

BookingErrorGuidance ==
    "ERROR: book_meeting failed due to a booking system or configuration issue. "
        \o "When you respond to the user, apologize once, explain that the calendar system "
        \o "is not responding correctly, and suggest a clear fallback such as sharing a "
        \o "preferred time window or following up via email instead of booking live."

\* lines 530-531: explicit argument if non-blank, else the stored value
ResolvedName(ud, attendee_name) == Or(Strip(Or(attendee_name, "")), Or(ud.name, ""))

\* ResolvedEmail, were the argument not trimmed
ResolvedEmail_Untrimmed(ud, attendee_email) == Or(Or(attendee_email, ""), Or(ud.email, ""))

ResolvedEmail(ud, attendee_email) == Or(Strip(Or(attendee_email, "")), Or(ud.email, ""))

\* ', '.join(missing)
MissingFields(name, email) ==
    IF ~Truthy(name) /\ ~Truthy(email) THEN "name, email"
    ELSE IF ~Truthy(name) THEN "name"
    ELSE "email"

CannotBookYet(name, email) ==
    "Cannot book yet: please ask the user for their " \o MissingFields(name, email)
        \o " and call set_name or set_email first."

\* AfterBooking, were booked_before to follow the last booking
AfterBooking_LastBooking(ud, result) ==
    [ud EXCEPT !.booked_before = Contains(Or(result, ""), "Meeting booked successfully"),
               !.state = WARM_CLOSE]

\* AfterBooking, were a failed booking to stay in its phase
AfterBooking_FailureStays(ud, result) ==
    IF Contains(Or(result, ""), "Meeting booked successfully")
    THEN [ud EXCEPT !.booked_before = TRUE, !.state = WARM_CLOSE]
    ELSE ud

\* lines 562-568: the state after the delegate returned `result`
AfterBooking(ud, result) ==
    IF Contains(Or(result, ""), "Meeting booked successfully")
    THEN [ud EXCEPT !.booked_before = TRUE, !.state = WARM_CLOSE]
    ELSE [ud EXCEPT !.state = WARM_CLOSE]

\* book_meeting, were a raising delegate to close the booking as well
book_meeting_ClosesOnRaise(ud, attendee_name, attendee_email, date, time_slot, timezone, notes, env) ==
    LET name  == ResolvedName(ud, attendee_name)
        email == ResolvedEmail(ud, attendee_email)
        d     == calcom_book_meeting(name, email, date, time_slot, timezone,
                                     Or(notes, None), env)
    IN  IF ~Truthy(name) \/ ~Truthy(email)
        THEN ToolResult(ud, Return(CannotBookYet(name, email), FALSE), "not_called")
        ELSE IF d.exc
             THEN ToolResult([ud EXCEPT !.state = WARM_CLOSE],
                             Return(BookingErrorGuidance, d.sent), "raised")
             ELSE ToolResult(AfterBooking(ud, d.val), Return(d.val, d.sent), "returned")

book_meeting(ud, attendee_name, attendee_email, date, time_slot, timezone, notes, env) ==
    LET name  == ResolvedName(ud, attendee_name)
        email == ResolvedEmail(ud, attendee_email)
        d     == calcom_book_meeting(name, email, date, time_slot, timezone,
                                     Or(notes, None), env)
    IN  IF ~Truthy(name) \/ ~Truthy(email)
        THEN ToolResult(ud, Return(CannotBookYet(name, email), FALSE), "not_called")
        ELSE IF d.exc
             THEN ToolResult(ud, Return(BookingErrorGuidance, d.sent), "raised")
             ELSE ToolResult(AfterBooking(ud, d.val), Return(d.val, d.sent), "returned")

(***************************************************************************)
(* The session.                                                            *)
(*                                                                         *)
(* `call` is the record of one operation: what ran, on which userdata,     *)
(* with which input, and what it returned.  To keep the state space the    *)
(* size of the session's own state, a behaviour records at most one call   *)
(* and ends with it; every call the session can make from a reachable      *)
(* state is the recorded call of some behaviour.                           *)
(***************************************************************************)
VARIABLES
    userdata,       \* session.userdata: BookingUserData
    end_requested,  \* PortfolioAssistant._end_requested
    enter_pc,       \* on_enter: "created", "greeting" (awaiting the reply), "entered"
    call,           \* the recorded call, NoCall while none is recorded
    applied,        \* a module-level function applied on its own: name, argument, value
    session         \* the AgentSession around a turn: reply, directive, teardown

vars == << userdata, end_requested, enter_pc, call, applied, session >>

\* The session while no turn has been taken:
\*   reply        "idle", "generating" or "playing": the reply to the last utterance
\*   end_turn     the last utterance is the one that latched the end-signal
\*   directive    the Layer 2 message on_user_turn_completed added to the turn's context
\*   close_tasks  _close_after_delay tasks in asyncio.sleep
\*   aclose       "invoked" while a task awaits session.aclose()
\*   closed       session.aclose() has returned
\*   close_failed a task caught and logged an exception of session.aclose()
\*   task_raised  a task ended with an exception
NoSession ==
    [ reply |-> "idle", end_turn |-> FALSE, directive |-> None, close_tasks |-> 0,
      aclose |-> "none", closed |-> FALSE, close_failed |-> FALSE,
      task_raised |-> FALSE ]

\* the fields of BookingUserData that the instruction and memory layers read
NoProfile ==
    [ state |-> GREETING, intent_type |-> UNKNOWN, booked_before |-> FALSE,
      company |-> None, domain |-> None, memory_hint |-> None ]

\* no function applied on its own
\* the arguments of a call of the Cal.com client, and the environment it met
NoCalcomArgs ==
    [ date |-> "", time_slot |-> "", timezone |-> "", start_date |-> "",
      end_date |-> "", iso_start |-> "", utc |-> FALSE, hour |-> 0,
      minute |-> 0, env |-> NoEnv ]

NoApplied ==
    [ fn |-> "none", user_text |-> "", userdata |-> NoProfile, done |-> FALSE,
      val |-> None, args |-> NoCalcomArgs ]

\* BookingUserData()
NewUserData ==
    [ name |-> None, email |-> None, booked_before |-> FALSE, state |-> GREETING,
      intent_type |-> UNKNOWN, booking_offer_count |-> 0 ]

\* the arguments of a tool call, and the Cal.com environment it met
NoArgs == [ value |-> None, attendee_name |-> None, attendee_email |-> None,
            timezone |-> None, env |-> NoEnv ]

NoResult == Return(None, FALSE)

\* the contact tool (set_name or set_email) called right before the recorded
\* call, the phase it was called in and the value it was given
NoFirst == [ op |-> "none", state |-> GREETING, value |-> None ]

NoCall ==
    [ op |-> "none", before |-> NewUserData, before_end_requested |-> FALSE,
      turn |-> NoTurn, args |-> NoArgs, result |-> NoResult,
      delegate |-> "not_called", spawn |-> FALSE, first |-> NoFirst,
      instructions |-> None ]

Init ==
    /\ userdata = NewUserData
    /\ end_requested = FALSE
    /\ enter_pc = "created"
    /\ call = NoCall
    /\ applied = NoApplied
    /\ session = NoSession

\* The call is recorded, or not.
Record(c) == \E rec \in BOOLEAN : call' = IF rec THEN c ELSE NoCall

Running == call = NoCall

\* lines 315-320: the instructions on_enter gives to generate_reply
GreetingInstructions ==
    "You must output exactly the following text, word for word, with no additions, "
        \o "changes, or paraphrasing: Hi, I'm Melvin. I help explain Mihir's work and connect "
        \o "people with him. What brought you here today?"

\* on_enter up to the await of generate_reply
OnEnter ==
    /\ Running
    /\ enter_pc = "created"
    /\ userdata' = [userdata EXCEPT !.state = GREETING]
    /\ enter_pc' = "greeting"
    /\ Record([NoCall EXCEPT !.op = "on_enter", !.before = userdata,
                             !.before_end_requested = end_requested,
                             !.instructions = GreetingInstructions])
    /\ UNCHANGED << end_requested, applied, session >>

\* OnEnterResume, were the phase left as it is
OnEnterResume_KeepsPhase ==
    /\ Running
    /\ enter_pc = "greeting"
    /\ userdata' = userdata
    /\ enter_pc' = "entered"
    /\ Record([NoCall EXCEPT !.op = "on_enter", !.before = userdata,
                             !.before_end_requested = end_requested])
    /\ UNCHANGED << end_requested, applied, session >>

\* on_enter after the scripted greeting was delivered
OnEnterResume ==
    /\ Running
    /\ enter_pc = "greeting"
    /\ userdata' = [userdata EXCEPT !.state = DISCOVER_INTENT]
    /\ enter_pc' = "entered"
    /\ Record([NoCall EXCEPT !.op = "on_enter", !.before = userdata,
                             !.before_end_requested = end_requested])
    /\ UNCHANGED << end_requested, applied, session >>

\* Utterances are accepted, and tools called, once on_enter has delivered the
\* greeting; from then on one operation runs at a time.
Started == Running /\ enter_pc = "entered"

OnUserTurnCompleted ==
    /\ Started
    /\ \E a \in TurnInputs :
          LET r == Route(userdata, end_requested, a) IN
          /\ userdata' = r.ud
          /\ end_requested' = r.end_requested
          /\ Record([NoCall EXCEPT !.op = "on_user_turn_completed",
                                   !.before = userdata,
                                   !.before_end_requested = end_requested,
                                   !.turn = a, !.spawn = r.spawn])
    /\ UNCHANGED << enter_pc, applied, session >>

\* The effect of a tool call on the session.
Called(name, a, r) ==
    /\ userdata' = r.ud
    /\ Record([NoCall EXCEPT !.op = name, !.before = userdata,
                             !.before_end_requested = end_requested,
                             !.args = a, !.result = r.out, !.delegate = r.delegate,
                             !.first = IF Running THEN NoFirst
                                       ELSE [ op |-> call.op, state |-> call.before.state,
                                              value |-> call.args.value ]])
    /\ UNCHANGED << end_requested, enter_pc, applied, session >>

\* set_name and set_email are the one pair of calls recorded together: a
\* recorded contact call made in BOOKING_COLLECT_NAME_AND_EMAIL may be followed
\* by one more contact call, which is recorded with its predecessor in `first`.
AfterContactCall ==
    /\ enter_pc = "entered"
    /\ call.op \in { "set_name", "set_email" }
    /\ call.first = NoFirst
    /\ call.before.state = BOOKING_COLLECT_NAME_AND_EMAIL

Timezones == { "UTC", "Asia/Kolkata", "Mars/Phobos" }

GetCurrentDatetime ==
    /\ Started
    /\ \E timezone \in Timezones :
          Called("get_current_datetime", [NoArgs EXCEPT !.timezone = timezone],
                 get_current_datetime(userdata, timezone))

NameValues == { " ", " Al " }

SetName ==
    /\ Started \/ AfterContactCall
    /\ \E value \in NameValues :
          Called("set_name", [NoArgs EXCEPT !.value = value], set_name(userdata, value))

EmailValues == { "", "al@x.io " }

SetEmail ==
    /\ Started \/ AfterContactCall
    /\ \E value \in EmailValues :
          Called("set_email", [NoArgs EXCEPT !.value = value], set_email(userdata, value))

GetAvailableSlots ==
    /\ Started
    /\ \E timezone \in Timezones, env \in CalcomEnvs :
          Called("get_available_slots",
                 [NoArgs EXCEPT !.timezone = timezone, !.env = env],
                 get_available_slots(userdata, "2025-02-21", "2025-02-22", timezone, env))

AttendeeNames == { "", " ", "Bo" }

AttendeeEmails == { "", " ", "bo@x.io" }

\* date, time_slot and timezone of a booking: a valid one, and one with each
\* of the three malformed
BookingRequests ==
    { << "2025-02-21", "14:00", "UTC" >>, << "tomorrow", "14:00", "UTC" >>,
      << "2025-02-21", "2pm", "UTC" >>, << "2025-02-21", "14:00", "Mars/Phobos" >> }

BookMeeting ==
    /\ Started
    /\ \E attendee_name \in AttendeeNames, attendee_email \in AttendeeEmails,
          req \in BookingRequests, env \in CalcomEnvs :
          Called("book_meeting",
                 [NoArgs EXCEPT !.attendee_name = attendee_name,
                                !.attendee_email = attendee_email,
                                !.timezone = req[3], !.env = env],
                 book_meeting(userdata, attendee_name, attendee_email,
                              req[1], req[2], req[3], "", env))

Next ==
    \/ OnEnter
    \/ OnEnterResume
    \/ OnUserTurnCompleted
    \/ GetCurrentDatetime
    \/ SetName
    \/ SetEmail
    \/ GetAvailableSlots
    \/ BookMeeting

Spec == Init /\ [][Next]_vars

(***************************************************************************)
(* The router on any session data.  BookingUserData is a plain dataclass   *)
(* and on_user_turn_completed reads whatever self.session.userdata holds;  *)
(* here it is applied to every value of the fields, among them the phases  *)
(* that no operation of a fresh session writes.                            *)
(***************************************************************************)
StoredNames == { None, "", "Al" }

StoredEmails == { None, "", "al@x.io" }

AnyUserData ==
    [ name : StoredNames, email : StoredEmails, booked_before : BOOLEAN,
      state : ConversationState, intent_type : IntentType,
      booking_offer_count : { 0, 1 } ]

InitRouter ==
    /\ userdata \in AnyUserData
    /\ end_requested \in BOOLEAN
    /\ enter_pc = "entered"
    /\ call = NoCall
    /\ applied = NoApplied
    /\ session = NoSession

NextRouter == OnUserTurnCompleted

SpecRouter == InitRouter /\ [][NextRouter]_vars

(***************************************************************************)
(* The intent classifier on its own: _classify_intent is a module-level    *)
(* function of the text, applied here to texts in mixed case.              *)
(***************************************************************************)
ClassifierWords == { "Hiring", "ROLE", "Startup", "director", "fit", "hello" }

ClassifierTexts ==
    { Join(ws) : ws \in UNION { [1..n -> ClassifierWords] : n \in 0..MaxWords } }

InitClassifier ==
    /\ userdata = NewUserData
    /\ end_requested = FALSE
    /\ enter_pc = "created"
    /\ call = NoCall
    /\ applied \in { [NoApplied EXCEPT !.fn = "_classify_intent", !.user_text = t] :
                        t \in ClassifierTexts }
    /\ session = NoSession

ClassifyIntent ==
    /\ applied.fn = "_classify_intent"
    /\ ~applied.done
    /\ applied' = [applied EXCEPT !.done = TRUE,
                                  !.val = _classify_intent(applied.user_text)]
    /\ UNCHANGED << userdata, end_requested, enter_pc, call, session >>

NextClassifier == ClassifyIntent

SpecClassifier == InitClassifier /\ [][NextClassifier]_vars

(***************************************************************************)
(* The instruction and memory layers on their own, applied to any          *)
(* BookingUserData: every declared phase, an empty and a missing phase and *)
(* a phase that is not declared; a profile hydrated or not.                *)
(***************************************************************************)
PhaseValues == ConversationState \cup { "", None, "ON_HOLD" }

IntentValues == IntentType \cup { "", None }

InstructionInputs ==
    { [NoProfile EXCEPT !.state = st, !.intent_type = it, !.booked_before = b] :
        st \in PhaseValues, it \in IntentValues, b \in BOOLEAN }

MemoryInputs ==
    { [NoProfile EXCEPT !.intent_type = it, !.booked_before = b, !.company = c,
                        !.domain = d, !.memory_hint = h] :
        it \in IntentType, b \in BOOLEAN, c \in { None, "", "Acme" },
        d \in { None, "", "fintech" }, h \in { None, "", "  ", " met at PyCon " } }

InitLayers ==
    /\ userdata = NewUserData
    /\ end_requested = FALSE
    /\ enter_pc = "created"
    /\ call = NoCall
    /\ session = NoSession
    /\ applied \in
          { [NoApplied EXCEPT !.fn = "_build_state_instruction", !.userdata = u] :
              u \in InstructionInputs }
          \cup { [NoApplied EXCEPT !.fn = "_build_memory_context", !.userdata = u] :
                    u \in MemoryInputs }

BuildStateInstruction ==
    /\ applied.fn = "_build_state_instruction"
    /\ ~applied.done
    /\ applied' = [applied EXCEPT !.done = TRUE,
                                  !.val = _build_state_instruction(applied.userdata)]
    /\ UNCHANGED << userdata, end_requested, enter_pc, call, session >>

BuildMemoryContext ==
    /\ applied.fn = "_build_memory_context"
    /\ ~applied.done
    /\ applied' = [applied EXCEPT !.done = TRUE,
                                  !.val = _build_memory_context(applied.userdata)]
    /\ UNCHANGED << userdata, end_requested, enter_pc, call, session >>

NextLayers == BuildStateInstruction \/ BuildMemoryContext

SpecLayers == InitLayers /\ [][NextLayers]_vars

(***************************************************************************)
(* The Cal.com client on its own: book_meeting, get_available_slots and    *)
(* _format_slot_time applied to one set of arguments each.                 *)
(***************************************************************************)
BookingDates ==
    { "2025-02-21", " 2025-02-21 ", "2025-2-1", "2025-02- 1", "2024-02-29",
      "2025-02-29", "2025-02-30", "2025-13-01", "2025-00-10", "0000-01-01",
      "2025-12-31", "2025-01-01", "25-02-21", "2025/02/21", "21-02-2025",
      "2025-02-211", "2025-02", "tomorrow", "" }

BookingTimes ==
    { "14:00", "9:05", "9:5", "00:00", "23:59", "2:00 PM", " 2:00 pm ", "02:00PM",
      "2 : 00 PM", "12:30 AM", "12:00 PM", "11:59 pm", "0:30 AM", "13:00 PM",
      "2pm", "24:00", "14:60", "2:00 P.M.", "14:00:00", "14.00", "noon", "" }

BookingZones ==
    { "UTC", "Asia/Kolkata", "America/Phoenix", "Pacific/Kiritimati",
      "Mars/Phobos", "IST", "" }

\* Cal.com unconfigured, accepting the booking, and refusing it
BookingEnvs ==
    { e \in CalcomEnvs : ~e.raises /\ (e.resp = NoResponse \/ e.resp.status = 409) }

SlotDates ==
    { "2025-02-21", " 2025-02-22", "2025-2-1", "2025-02-30", "21/02/2025",
      "tomorrow", "next week", "" }

SlotZones ==
    { "UTC", "Asia/Kolkata", "Asia/Kathmandu", "America/Phoenix",
      "Pacific/Kiritimati", "Pacific/Pago_Pago", "Mars/Phobos", "" }

\* how a UTC start is written after its "YYYY-MM-DDTHH:MM:SS"
UtcSuffixes == { "Z", ".000Z", "+00:00", "" }

\* the UTC slot start at hour:minute of a day, written with a suffix
UtcStart(day, hour, minute, suffix) ==
    day \o "T" \o Pad2(hour) \o ":" \o Pad2(minute) \o ":00" \o suffix

\* starts that are not UTC times of that form
OtherStarts ==
    { "2025-02-21T09:00:00+05:30", "2025-02-21T09:00:00-05:00", "2025-12-31T20:00:00Z",
      "2025-02-21 09:00", "2025-02-21", "soon" }

\* the date key Cal.com files a slot under, and the minutes slots start at
ListedDateKey == "2025-02-21"

ListedMinutes == { 0, 30 }

InitCalcom ==
    /\ userdata = NewUserData
    /\ end_requested = FALSE
    /\ enter_pc = "created"
    /\ call = NoCall
    /\ session = NoSession
    /\ \/ \E d \in BookingDates, t \in BookingTimes, z \in BookingZones,
             e \in BookingEnvs :
             applied = [NoApplied EXCEPT
                          !.fn = "book_meeting",
                          !.args = [NoCalcomArgs EXCEPT !.date = d, !.time_slot = t,
                                                        !.timezone = z, !.env = e]]
       \/ \E d1 \in SlotDates, d2 \in SlotDates, z \in SlotZones, e \in CalcomEnvs :
             applied = [NoApplied EXCEPT
                          !.fn = "get_available_slots",
                          !.args = [NoCalcomArgs EXCEPT !.start_date = d1,
                                                        !.end_date = d2,
                                                        !.timezone = z, !.env = e]]
       \/ \E h \in 0..23, m \in 0..59, x \in UtcSuffixes, z \in SlotZones :
             applied = [NoApplied EXCEPT
                          !.fn = "_format_slot_time",
                          !.args = [NoCalcomArgs EXCEPT
                                      !.iso_start = UtcStart("2025-02-21", h, m, x),
                                      !.utc = TRUE, !.hour = h, !.minute = m,
                                      !.timezone = z]]
       \/ \E s \in OtherStarts, z \in SlotZones :
             applied = [NoApplied EXCEPT
                          !.fn = "_format_slot_time",
                          !.args = [NoCalcomArgs EXCEPT !.iso_start = s,
                                                        !.timezone = z]]
       \/ \E h \in 0..23, m \in ListedMinutes, z \in KnownZones :
             applied = [NoApplied EXCEPT
                          !.fn = "list_then_book",
                          !.args = [NoCalcomArgs EXCEPT
                                      !.date = ListedDateKey,
                                      !.iso_start = UtcStart(ListedDateKey, h, m, "Z"),
                                      !.utc = TRUE, !.hour = h, !.minute = m,
                                      !.timezone = z]]

CalcomBookMeeting ==
    /\ applied.fn = "book_meeting"
    /\ ~applied.done
    /\ applied' = [applied EXCEPT
                      !.done = TRUE,
                      !.val = calcom_book_meeting("Bo", "bo@x.io", applied.args.date,
                                                  applied.args.time_slot,
                                                  applied.args.timezone, None,
                                                  applied.args.env)]
    /\ UNCHANGED << userdata, end_requested, enter_pc, call, session >>

CalcomGetAvailableSlots ==
    /\ applied.fn = "get_available_slots"
    /\ ~applied.done
    /\ applied' = [applied EXCEPT
                      !.done = TRUE,
                      !.val = calcom_get_available_slots(applied.args.start_date,
                                                         applied.args.end_date,
                                                         applied.args.timezone,
                                                         applied.args.env)]
    /\ UNCHANGED << userdata, end_requested, enter_pc, call, session >>

FormatSlotTime ==
    /\ applied.fn = "_format_slot_time"
    /\ ~applied.done
    /\ applied' = [applied EXCEPT
                      !.done = TRUE,
                      !.val = _format_slot_time(applied.args.iso_start,
                                                applied.args.timezone)]
    /\ UNCHANGED << userdata, end_requested, enter_pc, call, session >>

\* book_meeting's start (line 261) for a listed slot: the date key and the
\* label of one sentence of the listing, and the zone the listing was asked for
BookListed(date_key, label, timezone) ==
    [ date_key |-> date_key, label |-> label,
      start |-> _build_start_utc_iso(date_key, label, timezone) ]

\* get_available_slots lists a slot under its date key with its label (lines
\* 147-157), and book_meeting is called with that date, label and zone
ListThenBook ==
    /\ applied.fn = "list_then_book"
    /\ ~applied.done
    /\ applied' = [applied EXCEPT
                      !.done = TRUE,
                      !.val = BookListed(applied.args.date,
                                         _format_slot_time(applied.args.iso_start,
                                                           applied.args.timezone),
                                         applied.args.timezone)]
    /\ UNCHANGED << userdata, end_requested, enter_pc, call, session >>

NextCalcom ==
    \/ CalcomBookMeeting
    \/ CalcomGetAvailableSlots
    \/ FormatSlotTime
    \/ ListThenBook

SpecCalcom == InitCalcom /\ [][NextCalcom]_vars

(***************************************************************************)
(* The session turn by turn.  An utterance is routed, which adds the       *)
(* directive to the turn's context, and the reply is generated and played; *)
(* the LLM may call tools while the reply is generated.  An utterance      *)
(* routed in END with _end_requested set spawns _close_after_delay, which  *)
(* sleeps and then awaits session.aclose() on its own.                     *)
(***************************************************************************)
InitTurns ==
    /\ userdata = [NewUserData EXCEPT !.state = DISCOVER_INTENT]
    /\ end_requested = FALSE
    /\ enter_pc = "entered"
    /\ call = NoCall
    /\ applied = NoApplied
    /\ session = NoSession

InTurns == enter_pc = "entered" /\ call = NoCall /\ ~session.closed

\* on_user_turn_completed, then the engine starts on the reply
UserTurn ==
    /\ InTurns
    /\ \E a \in TurnInputs :
          LET r == Route(userdata, end_requested, a) IN
          /\ r.spawn => session.close_tasks < MaxCloseTasks
          /\ userdata' = r.ud
          /\ end_requested' = r.end_requested
          /\ session' = [session EXCEPT
                 !.reply = "generating",
                 !.end_turn = EndSignal(a),
                 !.directive = _build_state_instruction(r.ud),
                 !.close_tasks = IF r.spawn THEN @ + 1 ELSE @]
    /\ UNCHANGED << enter_pc, call, applied >>

\* the LLM calls a tool while it generates the reply; the reply goes on in
\* the same turn context
ToolCallInTurn(r) ==
    /\ InTurns
    /\ session.reply = "generating"
    /\ userdata' = r.ud
    /\ UNCHANGED << end_requested, enter_pc, call, applied, session >>

TurnSetName ==
    /\ InTurns
    /\ ToolCallInTurn(set_name(userdata, " Al "))

TurnSetEmail ==
    /\ InTurns
    /\ ToolCallInTurn(set_email(userdata, "al@x.io "))

TurnBookMeeting ==
    /\ InTurns
    /\ \E env \in CalcomEnvs :
          ToolCallInTurn(book_meeting(userdata, "", "", "2025-02-21", "14:00", "UTC",
                                      "", env))

ReplyGenerated ==
    /\ InTurns
    /\ session.reply = "generating"
    /\ session' = [session EXCEPT !.reply = "playing"]
    /\ UNCHANGED << userdata, end_requested, enter_pc, call, applied >>

ReplyPlayed ==
    /\ InTurns
    /\ session.reply = "playing"
    /\ session' = [session EXCEPT !.reply = "idle"]
    /\ UNCHANGED << userdata, end_requested, enter_pc, call, applied >>

\* _close_after_delay, were the close not guarded by try/except
_close_after_delay_Unguarded(aclose_raises) ==
    [ raised |-> aclose_raises, logged |-> FALSE ]

\* lines 410-415: what becomes of the task when session.aclose() returns or raises
_close_after_delay(aclose_raises) ==
    [ raised |-> FALSE, logged |-> aclose_raises ]

\* asyncio.sleep(delay) is over: the task awaits session.aclose()
CloseTimerFires ==
    /\ session.close_tasks > 0
    /\ session.aclose = "none"
    /\ session' = [session EXCEPT !.close_tasks = @ - 1, !.aclose = "invoked"]
    /\ UNCHANGED << userdata, end_requested, enter_pc, call, applied >>

\* session.aclose() returns: the session is closed and its output stops
AcloseReturns ==
    /\ session.aclose = "invoked"
    /\ LET t == _close_after_delay(FALSE) IN
       session' = [session EXCEPT !.aclose = "none", !.closed = TRUE, !.reply = "idle",
                                  !.close_failed = @ \/ t.logged,
                                  !.task_raised = @ \/ t.raised]
    /\ UNCHANGED << userdata, end_requested, enter_pc, call, applied >>

\* session.aclose() raises, having closed the session or not
AcloseRaises ==
    /\ session.aclose = "invoked"
    /\ \E closed \in BOOLEAN :
          LET t == _close_after_delay(TRUE) IN
          session' = [session EXCEPT !.aclose = "none",
                                     !.closed = @ \/ closed,
                                     !.reply = IF closed THEN "idle" ELSE @,
                                     !.close_failed = @ \/ t.logged,
                                     !.task_raised = @ \/ t.raised]
    /\ UNCHANGED << userdata, end_requested, enter_pc, call, applied >>

NextTurns ==
    \/ UserTurn
    \/ TurnSetName
    \/ TurnSetEmail
    \/ TurnBookMeeting
    \/ ReplyGenerated
    \/ ReplyPlayed
    \/ CloseTimerFires
    \/ AcloseReturns
    \/ AcloseRaises

SpecTurns == InitTurns /\ [][NextTurns]_vars

\* the event loop runs a task whose sleep is over, and session.aclose() ends
FairSpecTurns ==
    SpecTurns /\ WF_vars(CloseTimerFires) /\ WF_vars(AcloseReturns \/ AcloseRaises)

(***************************************************************************)
(* The greeting.  on_enter writes GREETING and awaits generate_reply; while *)
(* it is suspended the event loop runs on_user_turn_completed for an        *)
(* utterance that arrives (spoken over the greeting, or typed); on_enter    *)
(* resumes when the greeting has been delivered or interrupted.             *)
(***************************************************************************)
\* on_user_turn_completed while on_enter awaits the greeting
TurnDuringGreeting ==
    /\ Running
    /\ enter_pc = "greeting"
    /\ \E a \in TurnInputs :
          LET r == Route(userdata, end_requested, a) IN
          /\ userdata' = r.ud
          /\ end_requested' = r.end_requested
          /\ Record([NoCall EXCEPT !.op = "on_user_turn_completed",
                                   !.before = userdata,
                                   !.before_end_requested = end_requested,
                                   !.turn = a, !.spawn = r.spawn])
    /\ UNCHANGED << enter_pc, applied, session >>

NextGreeting ==
    \/ OnEnter
    \/ TurnDuringGreeting
    \/ OnEnterResume

SpecGreeting == Init /\ [][NextGreeting]_vars

(***************************************************************************)
(* Two sessions at once.  portfolio_agent_handler runs once per job and    *)
(* creates the job's AgentSession, BookingUserData and PortfolioAssistant. *)
(* Here `userdata` is the heap of BookingUserData objects, `end_requested` *)
(* the _end_requested of each PortfolioAssistant object, and `session`     *)
(* gives each job's AgentSession: the objects it refers to, whether        *)
(* get_available_slots has been called in it, and whether it is closed.    *)
(* `call` is the recorded tool call: its session, the userdata it started  *)
(* from, whether the session had called get_available_slots before,        *)
(* whether Cal.com was configured and whether a request went out.          *)
(***************************************************************************)
Jobs == { 1, 2 }

\* portfolio_agent_handler, were one BookingUserData shared by the jobs
portfolio_agent_handler_SharedUserData(job) ==
    [ userdata |-> 1, agent |-> job, slots_called |-> FALSE, closed |-> FALSE ]

\* lines 42-54: AgentSession(userdata=BookingUserData()) and
\* PortfolioAssistant(), objects of the job's own
portfolio_agent_handler(job) ==
    [ userdata |-> job, agent |-> job, slots_called |-> FALSE, closed |-> FALSE ]

\* the utterances of the two sessions: an end-signal and a booking request
SessionTurnInputs == { Analyse("bye"), Analyse("Facebook") }

\* Cal.com configured and answering, and not configured
SessionEnvs == { e \in CalcomEnvs : ~e.raises /\ e.resp = NoResponse }

NoSessionCall ==
    [ job |-> 0, op |-> "none", before |-> NewUserData, slots_called |-> FALSE,
      configured |-> FALSE, sent |-> FALSE ]

InitSessions ==
    /\ session = [ job \in Jobs |-> portfolio_agent_handler(job) ]
    /\ userdata = [ o \in Jobs |-> [NewUserData EXCEPT !.state = DISCOVER_INTENT] ]
    /\ end_requested = [ o \in Jobs |-> FALSE ]
    /\ enter_pc = "entered"
    /\ call = NoSessionCall
    /\ applied = NoApplied

\* session.userdata and self._end_requested as a job's session sees them
UserDataOf(job) == userdata[session[job].userdata]

EndRequestedOf(job) == end_requested[session[job].agent]

\* a job's session takes utterances and tool calls until it is closed; a
\* behaviour ends with the tool call it records
Open(job) == call = NoSessionCall /\ ~session[job].closed

\* on_user_turn_completed in a job's session
SessionTurn(job) ==
    /\ Open(job)
    /\ \E a \in SessionTurnInputs :
          LET r == Route(UserDataOf(job), EndRequestedOf(job), a) IN
          /\ userdata' = [userdata EXCEPT ![session[job].userdata] = r.ud]
          /\ end_requested' = [end_requested EXCEPT ![session[job].agent] =
                                                          r.end_requested]
    /\ call' = NoSessionCall
    /\ UNCHANGED << enter_pc, applied, session >>

\* a function tool called in a job's session, with its result r
SessionTool(job, name, env, r) ==
    /\ Open(job)
    /\ userdata' = [userdata EXCEPT ![session[job].userdata] = r.ud]
    /\ session' = [session EXCEPT ![job].slots_called =
                                       @ \/ name = "get_available_slots"]
    /\ \E rec \in BOOLEAN :
          call' = IF rec
                  THEN [ job |-> job, op |-> name, before |-> UserDataOf(job),
                         slots_called |-> session[job].slots_called,
                         configured |-> env.configured, sent |-> r.out.sent ]
                  ELSE NoSessionCall
    /\ UNCHANGED << end_requested, enter_pc, applied >>

SessionSetName(job) ==
    /\ Open(job)
    /\ SessionTool(job, "set_name", NoEnv, set_name(UserDataOf(job), " Al "))

SessionSetEmail(job) ==
    /\ Open(job)
    /\ SessionTool(job, "set_email", NoEnv, set_email(UserDataOf(job), "al@x.io "))

SessionGetAvailableSlots(job) ==
    /\ Open(job)
    /\ \E env \in SessionEnvs :
          SessionTool(job, "get_available_slots", env,
                      get_available_slots(UserDataOf(job), "2025-02-21", "2025-02-22",
                                          "UTC", env))

SessionBookMeeting(job) ==
    /\ Open(job)
    /\ \E env \in SessionEnvs :
          SessionTool(job, "book_meeting", env,
                      book_meeting(UserDataOf(job), "", "", "2025-02-21", "14:00",
                                   "UTC", "", env))

\* _close_after_delay of a job's agent: session.aclose() after the end-signal
SessionClose(job) ==
    /\ Open(job)
    /\ EndRequestedOf(job)
    /\ UserDataOf(job).state = END
    /\ session' = [session EXCEPT ![job].closed = TRUE]
    /\ call' = NoSessionCall
    /\ UNCHANGED << userdata, end_requested, enter_pc, applied >>

NextSessions ==
    \E job \in Jobs :
       \/ SessionTurn(job)
       \/ SessionSetName(job)
       \/ SessionSetEmail(job)
       \/ SessionGetAvailableSlots(job)
       \/ SessionBookMeeting(job)
       \/ SessionClose(job)

SpecSessions == InitSessions /\ [][NextSessions]_vars

TypeOK ==
    /\ userdata.state \in ConversationState
    /\ userdata.intent_type \in IntentType
    /\ userdata.booked_before \in BOOLEAN
    /\ userdata.booking_offer_count \in 0..1
    /\ end_requested \in BOOLEAN
    /\ call.delegate \in { "not_called", "returned", "raised" }

(***************************************************************************)
(* Properties.  A property of an operation is stated on the recorded call: *)
(* call.before is the userdata the operation started from, userdata the    *)
(* userdata it left.                                                       *)
(***************************************************************************)
Routed == call.op = "on_user_turn_completed"

ToolOps ==
    { "get_current_datetime", "set_name", "set_email", "get_available_slots",
      "book_meeting" }

\* C1: once the phase is END, routing an utterance leaves the phase END and
\* leaves name, email, intent_type, booking_offer_count and booked_before as
\* they were.
C1_EndAbsorbing ==
    (Routed /\ call.before.state = END) =>
        /\ userdata.state = END
        /\ userdata.name = call.before.name
        /\ userdata.email = call.before.email
        /\ userdata.intent_type = call.before.intent_type
        /\ userdata.booking_offer_count = call.before.booking_offer_count
        /\ userdata.booked_before = call.before.booked_before

\* C2: no operation (routing an utterance or any tool) started in phase END
\* leaves the session in another phase.
C2_EndLatch ==
    (call.op \in ToolOps \cup { "on_user_turn_completed" } /\ call.before.state = END)
        => userdata.state = END

ContactMissing(ud) == ud.name \in { None, "" } \/ ud.email \in { None, "" }

\* C3 as stated: from any phase but END, an utterance with a booking phrase,
\* whatever else it contains, leads to BOOKING_COLLECT_NAME_AND_EMAIL when name
\* or email is unset or empty.
C3_BookingPrecedenceAnyUtterance ==
    (Routed /\ call.before.state # END /\ call.turn.wants_booking
        /\ ContactMissing(call.before))
        => userdata.state = BOOKING_COLLECT_NAME_AND_EMAIL

\* C3 (amended): from any phase but END, an utterance with a booking phrase
\* and no end-signal leads to BOOKING_COLLECT_NAME_AND_EMAIL when name or email
\* is unset or empty.
C3_BookingPrecedence ==
    (Routed /\ call.before.state # END /\ call.turn.wants_booking
        /\ ~call.turn.wants_end /\ ContactMissing(call.before))
        => userdata.state = BOOKING_COLLECT_NAME_AND_EMAIL

\* a depth request with a booking phrase, name stored and email missing, routed
\* from VALUE_EXCHANGE into the contact sub-phase
C3_Witness ==
    /\ Routed
    /\ call.before.state = VALUE_EXCHANGE
    /\ call.turn.wants_booking /\ call.turn.depth /\ ~call.turn.wants_end
    /\ call.before.name = "Al" /\ call.before.email = None
    /\ userdata.state = BOOKING_COLLECT_NAME_AND_EMAIL

\* C4: in a booking sub-phase, an utterance with no end-signal and no booking
\* phrase leaves the phase and booking_offer_count as they were.
C4_StickyBooking ==
    (Routed /\ call.before.state \in booking_states
        /\ ~call.turn.wants_end /\ ~call.turn.wants_booking)
        => /\ userdata.state = call.before.state
           /\ userdata.booking_offer_count = call.before.booking_offer_count

\* a depth request with a soft-CTA trigger, routed in BOOKING_TIME_RANGE while
\* the one soft CTA is still unused and the intent is not FOUNDER
C4_Witness ==
    /\ Routed
    /\ call.before.state = BOOKING_TIME_RANGE
    /\ call.turn.depth /\ call.turn.cta
    /\ ~call.turn.wants_end /\ ~call.turn.wants_booking
    /\ call.before.booking_offer_count = 0
    /\ userdata.intent_type # FOUNDER
    /\ userdata.state = BOOKING_TIME_RANGE

\* C5: a book_meeting call whose delegate returned a string leaves the phase
\* WARM_CLOSE.
C5_BookingTerminality ==
    (call.op = "book_meeting" /\ call.delegate = "returned")
        => userdata.state = WARM_CLOSE

\* a failed booking made in BOOKING_TIME_RANGE
C5_Witness ==
    /\ call.op = "book_meeting"
    /\ call.delegate = "returned"
    /\ StartsWith(call.result.val, "Booking failed: ")
    /\ call.before.state = BOOKING_TIME_RANGE
    /\ userdata.state = WARM_CLOSE

\* C6: a book_meeting call whose delegate raised returns the tagged ERROR
\* guidance without raising and leaves the phase WARM_CLOSE.
C6_ExceptionForcesWarmClose ==
    (call.op = "book_meeting" /\ call.delegate = "raised")
        => /\ ~call.result.exc
           /\ StartsWith(call.result.val, "ERROR:")
           /\ userdata.state = WARM_CLOSE

\* C7: routing an utterance of fewer than 3 words leaves intent_type as it was.
C7_ShortUtteranceKeepsIntent ==
    (Routed /\ call.turn.nwords < 3)
        => userdata.intent_type = call.before.intent_type

\* two words that the classifier reads as HIRING, routed while the intent is
\* FOUNDER
C7_Witness ==
    /\ Routed
    /\ call.turn.nwords = 2
    /\ call.turn.intent = HIRING
    /\ call.before.intent_type = FOUNDER
    /\ userdata.intent_type = FOUNDER

\* the name and email a booking is made for, as C8 states them: the explicit
\* argument if it is not blank after trimming, otherwise the stored value
Trimmed(s) == IF s = None THEN "" ELSE Strip(s)

Resolved(arg, stored) ==
    IF Trimmed(arg) # "" THEN Trimmed(arg) ELSE IF stored = None THEN "" ELSE stored

NameMissing == Resolved(call.args.attendee_name, call.before.name) = ""

EmailMissing == Resolved(call.args.attendee_email, call.before.email) = ""

\* C8: book_meeting reaches the calendar delegate only with a non-empty resolved
\* name and email; otherwise it returns the guidance naming exactly the missing
\* fields, sends no request and leaves userdata as it was.
C8_BookingNeedsContact ==
    call.op = "book_meeting" =>
        /\ (call.delegate # "not_called" \/ call.result.sent)
              => (~NameMissing /\ ~EmailMissing)
        /\ (NameMissing \/ EmailMissing) =>
              /\ ~call.result.exc
              /\ StartsWith(call.result.val, "Cannot book yet: ")
              /\ Contains(call.result.val, "for their name") <=> NameMissing
              /\ Contains(call.result.val, "email and call set_name") <=> EmailMissing
              /\ ~call.result.sent
              /\ call.delegate = "not_called"
              /\ userdata = call.before

\* a name passed explicitly, a blank email passed with an empty email stored:
\* the guidance names the email only
C8_Witness ==
    /\ call.op = "book_meeting"
    /\ call.args.attendee_name = "Bo"
    /\ call.args.attendee_email = " "
    /\ call.before.email = ""
    /\ call.before.state = BOOKING_TIME_RANGE
    /\ call.delegate = "not_called"
    /\ Contains(call.result.val, "for their email and call")
    /\ userdata = call.before

\* C9: every tool returns a string and raises nothing, whatever Cal.com does
\* and whatever the timezone; when the delegate of get_available_slots raises,
\* the string is the tagged ERROR guidance.
C9_ToolsTotal ==
    call.op \in ToolOps =>
        /\ ~call.result.exc
        /\ call.result.val # None
        /\ (call.op = "get_available_slots" /\ call.delegate = "raised")
              => StartsWith(call.result.val, "ERROR: get_available_slots failed")

\* get_available_slots against a Cal.com that raises while the request is out
C9_Witness ==
    /\ call.op = "get_available_slots"
    /\ call.args.env.raises
    /\ call.delegate = "raised"
    /\ ~call.result.exc
    /\ StartsWith(call.result.val, "ERROR: ")

\* the call received an HTTP response with a status of 400 or more
Non2xxReceived ==
    /\ call.op \in { "get_available_slots", "book_meeting" }
    /\ call.result.sent
    /\ call.args.env.configured /\ ~call.args.env.raises
    /\ call.args.env.resp.status >= 400

IsTrimOf(r, v) ==
    /\ r = "" \/ (Ch(r, 1) # " " /\ Ch(r, Len(r)) # " ")
    /\ \E i \in 1..(Len(v) + 1) :
          /\ SubSeq(v, i, i + Len(r) - 1) = r
          /\ \A k \in (1..(i - 1)) \cup ((i + Len(r))..Len(v)) : Ch(v, k) = " "

\* the recorded call is the second of set_name and set_email, called one
\* after the other, the first of them in BOOKING_COLLECT_NAME_AND_EMAIL
BothContactCalls ==
    /\ call.op \in { "set_name", "set_email" }
    /\ call.first.op \in { "set_name", "set_email" }
    /\ call.first.op # call.op
    /\ call.first.state = BOOKING_COLLECT_NAME_AND_EMAIL

NameGiven == IF call.op = "set_name" THEN call.args.value ELSE call.first.value

EmailGiven == IF call.op = "set_email" THEN call.args.value ELSE call.first.value

\* C11: set_email stores the trimmed email and moves the phase to
\* BOOKING_TIME_RANGE exactly when called in BOOKING_COLLECT_NAME_AND_EMAIL;
\* set_name stores the trimmed name and leaves the phase; after both, called
\* in either order from BOOKING_COLLECT_NAME_AND_EMAIL, the phase is
\* BOOKING_TIME_RANGE and both trimmed values are stored.
C11_ContactTools ==
    /\ call.op = "set_email" =>
          /\ IsTrimOf(userdata.email, call.args.value)
          /\ userdata.name = call.before.name
          /\ call.before.state = BOOKING_COLLECT_NAME_AND_EMAIL
                => userdata.state = BOOKING_TIME_RANGE
          /\ call.before.state # BOOKING_COLLECT_NAME_AND_EMAIL
                => userdata.state = call.before.state
    /\ call.op = "set_name" =>
          /\ IsTrimOf(userdata.name, call.args.value)
          /\ userdata.email = call.before.email
          /\ userdata.state = call.before.state
    /\ BothContactCalls =>
          /\ userdata.state = BOOKING_TIME_RANGE
          /\ IsTrimOf(userdata.name, NameGiven)
          /\ IsTrimOf(userdata.email, EmailGiven)

\* set_name(" Al ") in BOOKING_COLLECT_NAME_AND_EMAIL followed by
\* set_email("al@x.io "): the second call moves the phase
C11_Witness ==
    /\ BothContactCalls
    /\ call.op = "set_email"
    /\ call.first.value = " Al " /\ call.args.value = "al@x.io "
    /\ call.before.state = BOOKING_COLLECT_NAME_AND_EMAIL
    /\ userdata.state = BOOKING_TIME_RANGE
    /\ userdata.name = "Al" /\ userdata.email = "al@x.io"

\* C12: routing a non-empty utterance with an end-signal, from any phase and
\* whatever else the utterance contains, leaves the phase END and the
\* pending-close flag set, with booking_offer_count as it was.
C12_EndPrecedence ==
    (Routed /\ call.turn.nonempty /\ call.turn.wants_end) =>
        /\ userdata.state = END
        /\ end_requested
        /\ userdata.booking_offer_count = call.before.booking_offer_count

\* an end-signal with a booking phrase and a soft-CTA trigger, routed from
\* VALUE_EXCHANGE while the soft CTA is unused and the intent is not FOUNDER
C12_Witness ==
    /\ Routed
    /\ call.turn.wants_end /\ call.turn.wants_booking /\ call.turn.cta
    /\ call.before.state = VALUE_EXCHANGE
    /\ call.before.booking_offer_count = 0
    /\ userdata.intent_type # FOUNDER
    /\ ~call.before_end_requested
    /\ userdata.state = END /\ end_requested
    /\ userdata.booking_offer_count = 0

BothContactsStored(ud) ==
    /\ ud.name # None /\ ud.name # ""
    /\ ud.email # None /\ ud.email # ""

\* C13: an utterance with a booking phrase and no end-signal, routed from any
\* phase but END, leads to BOOKING_TIME_RANGE when name and email are both
\* stored and non-empty, and to BOOKING_COLLECT_NAME_AND_EMAIL otherwise.
C13_BookingTrackEntry ==
    (Routed /\ call.before.state # END /\ call.turn.wants_booking
        /\ ~call.turn.wants_end) =>
        /\ BothContactsStored(call.before) => userdata.state = BOOKING_TIME_RANGE
        /\ ~BothContactsStored(call.before)
              => userdata.state = BOOKING_COLLECT_NAME_AND_EMAIL
        /\ userdata.name = call.before.name
        /\ userdata.email = call.before.email

\* a booking phrase routed from BOOKING_PICK_SLOT with only the email stored
C13_Witness ==
    /\ Routed
    /\ call.turn.wants_booking /\ ~call.turn.wants_end
    /\ call.before.state = BOOKING_PICK_SLOT
    /\ call.before.name = None /\ call.before.email = "al@x.io"
    /\ userdata.state = BOOKING_COLLECT_NAME_AND_EMAIL

\* an ordinary-routing turn: the phase is neither END nor a booking sub-phase
\* and the utterance has neither an end-signal nor a booking phrase
OrdinaryTurn ==
    /\ Routed
    /\ call.before.state \notin booking_states \cup { END }
    /\ ~call.turn.wants_end /\ ~call.turn.wants_booking

\* the base phase of C14
BasePhase ==
    CASE ~call.turn.nonempty -> RECOVERY
      [] call.turn.nonempty /\ call.turn.depth -> OPTIONAL_DEPTH
      [] call.turn.nonempty /\ ~call.turn.depth
            /\ call.before.state \in { GREETING, DISCOVER_INTENT } -> DISCOVER_INTENT
      [] OTHER -> VALUE_EXCHANGE

\* C14: an ordinary-routing turn leaves the base phase (RECOVERY for an empty
\* utterance, else OPTIONAL_DEPTH for a depth request, else DISCOVER_INTENT
\* from GREETING or DISCOVER_INTENT, else VALUE_EXCHANGE) or SOFT_CTA in its
\* place; a non-empty utterance that is no depth request leaves a session in
\* DISCOVER_INTENT there.
C14_BaseRouting ==
    OrdinaryTurn =>
        /\ userdata.state \in { BasePhase, SOFT_CTA }
        /\ ~call.turn.cta => userdata.state = BasePhase
        /\ BasePhase \in { RECOVERY, DISCOVER_INTENT } => userdata.state = BasePhase
        /\ (call.before.state = DISCOVER_INTENT /\ call.turn.nonempty /\ ~call.turn.depth)
              => userdata.state = DISCOVER_INTENT

\* a depth request routed from DISCOVER_INTENT
C14_Witness ==
    /\ OrdinaryTurn
    /\ call.before.state = DISCOVER_INTENT
    /\ call.turn.depth /\ ~call.turn.cta
    /\ userdata.state = OPTIONAL_DEPTH

\* the condition of the soft-CTA override, on the base phase of the turn, the
\* count before the turn and the intent held when the phase is decided
OverrideDue ==
    /\ BasePhase # DISCOVER_INTENT
    /\ call.before.booking_offer_count < 1
    /\ userdata.intent_type # FOUNDER
    /\ call.turn.cta

\* C15: an ordinary-routing turn leaves SOFT_CTA with booking_offer_count one
\* higher exactly when the base phase is not DISCOVER_INTENT, the count is
\* below 1, the intent is not FOUNDER and the utterance has a soft-CTA
\* trigger; otherwise it leaves the base phase and the count.  Any other turn
\* (END, end-signal, booking phrase, booking sub-phase) leaves the count and
\* does not lead to SOFT_CTA.
C15_SoftCtaOverride ==
    /\ (OrdinaryTurn /\ OverrideDue) =>
          /\ userdata.state = SOFT_CTA
          /\ userdata.booking_offer_count = call.before.booking_offer_count + 1
          /\ BasePhase \in { VALUE_EXCHANGE, OPTIONAL_DEPTH }
    /\ (OrdinaryTurn /\ ~OverrideDue) =>
          /\ userdata.state = BasePhase
          /\ userdata.booking_offer_count = call.before.booking_offer_count
    /\ (Routed /\ ~OrdinaryTurn) =>
          /\ userdata.state # SOFT_CTA
          /\ userdata.booking_offer_count = call.before.booking_offer_count

\* a depth request with a soft-CTA trigger, routed from DISCOVER_INTENT with
\* intent HIRING and no offer made: SOFT_CTA replaces OPTIONAL_DEPTH
C15_Witness ==
    /\ OrdinaryTurn /\ OverrideDue
    /\ call.before.state = DISCOVER_INTENT
    /\ call.turn.depth
    /\ userdata.intent_type = HIRING
    /\ userdata.state = SOFT_CTA
    /\ userdata.booking_offer_count = 1

\* C16: in a session created fresh, booking_offer_count is 0 or 1 and no
\* operation lowers it; it changes only in a turn that leaves SOFT_CTA, and a
\* turn leaves SOFT_CTA only by raising the count from 0 to 1 on an utterance
\* with a soft-CTA trigger, hence at most once.
C16_OfferCountCapped ==
    /\ userdata.booking_offer_count \in { 0, 1 }
    /\ call.op # "none" =>
          /\ userdata.booking_offer_count >= call.before.booking_offer_count
          /\ userdata.booking_offer_count # call.before.booking_offer_count
                => (Routed /\ userdata.state = SOFT_CTA)
    /\ (Routed /\ userdata.state = SOFT_CTA) =>
          /\ call.before.booking_offer_count = 0
          /\ userdata.booking_offer_count = 1
          /\ call.turn.cta
    /\ (call.op \in ToolOps /\ userdata.state = SOFT_CTA)
          => call.before.state = SOFT_CTA

\* a second utterance with a soft-CTA trigger, routed in SOFT_CTA after the
\* one offer was made: no second SOFT_CTA
C16_Witness ==
    /\ Routed
    /\ call.before.state = SOFT_CTA
    /\ call.before.booking_offer_count = 1
    /\ call.turn.cta /\ ~call.turn.wants_end /\ ~call.turn.wants_booking
    /\ userdata.intent_type = HIRING
    /\ userdata.state = VALUE_EXCHANGE
    /\ userdata.booking_offer_count = 1

\* C17: no operation turns booked_before from true to false, and it turns
\* from false to true only in a book_meeting call whose delegate returned a
\* string containing 'Meeting booked successfully'.
C17_BookedBeforeSticky ==
    call.op # "none" =>
        /\ call.before.booked_before => userdata.booked_before
        /\ (~call.before.booked_before /\ userdata.booked_before) =>
              /\ call.op = "book_meeting"
              /\ call.delegate = "returned"
              /\ \E i \in 1..Len(call.result.val) :
                    SubSeq(call.result.val, i, i + 26) = "Meeting booked successfully"

\* a booking that fails in a session that has booked before
C17_Witness ==
    /\ call.op = "book_meeting"
    /\ call.before.booked_before
    /\ call.delegate = "returned"
    /\ StartsWith(call.result.val, "Booking failed: ")
    /\ userdata.booked_before

Classified == applied.fn = "_classify_intent" /\ applied.done

\* some stretch of the text is keyword k, letter case aside
Mentions(text, keys) ==
    \E k \in keys : \E i \in 1..(Len(text) - Len(k) + 1) :
        Lower(SubSeq(text, i, i + Len(k) - 1)) = k

\* C18 as stated: a text matching neither keyword set is classified UNKNOWN.
C18_NoMatchIsUnknown ==
    (Classified /\ ~Mentions(applied.user_text, HiringKeywords)
        /\ ~Mentions(applied.user_text, FounderKeywords))
        => applied.val = UNKNOWN

\* C18 (amended): a text matching neither keyword set is classified EXPLORER,
\* and the classifier returns UNKNOWN for no text.
C18_NoMatchIsExplorer ==
    Classified =>
        /\ (~Mentions(applied.user_text, HiringKeywords)
              /\ ~Mentions(applied.user_text, FounderKeywords))
              => applied.val = EXPLORER
        /\ applied.val \in { HIRING, FOUNDER, EXPLORER }

\* the classifier applied to a text without any keyword
C18_Witness ==
    /\ Classified
    /\ applied.user_text = "hello fit"
    /\ applied.val = EXPLORER

\* C19: whatever the letter case, a text with a hiring keyword is classified
\* HIRING, also when it has a founder keyword; a text with a founder keyword
\* and no hiring keyword is classified FOUNDER.
C19_HiringBeforeFounder ==
    Classified =>
        /\ Mentions(applied.user_text, HiringKeywords) => applied.val = HIRING
        /\ (Mentions(applied.user_text, FounderKeywords)
              /\ ~Mentions(applied.user_text, HiringKeywords))
              => applied.val = FOUNDER

\* a founder keyword followed by a hiring keyword in capitals
C19_Witness ==
    /\ Classified
    /\ applied.user_text = "Startup ROLE"
    /\ applied.val = HIRING

\* C20: no operation turns intent_type from another value to UNKNOWN, and
\* routing an utterance of at least 3 words leaves intent_type equal to the
\* classifier's result for it, whatever it was before.
C20_IntentNeverReset ==
    /\ (call.op # "none" /\ call.before.intent_type # UNKNOWN)
          => userdata.intent_type # UNKNOWN
    /\ (Routed /\ call.turn.nonempty /\ call.turn.nwords >= 3)
          => userdata.intent_type = call.turn.intent

\* three words without a keyword, routed while the intent is HIRING
C20_Witness ==
    /\ Routed
    /\ call.turn.nwords = 3
    /\ call.turn.intent = EXPLORER
    /\ call.before.intent_type = HIRING
    /\ userdata.intent_type = EXPLORER

\* C21: a session starts with phase GREETING, intent UNKNOWN, no name, no
\* email, booking_offer_count 0 and booked_before false; on_enter sets the
\* phase to GREETING and asks for the scripted greeting word for word, and
\* once the greeting is delivered the phase is DISCOVER_INTENT.
C21_SessionStart ==
    /\ enter_pc = "created" =>
          /\ userdata.state = "GREETING"
          /\ userdata.intent_type = "UNKNOWN"
          /\ userdata.name = None /\ userdata.email = None
          /\ userdata.booking_offer_count = 0
          /\ ~userdata.booked_before
    /\ enter_pc = "greeting" => userdata.state = "GREETING"
    /\ (call.op = "on_enter" /\ enter_pc = "greeting") =>
          /\ StartsWith(call.instructions, "You must output exactly the following text")
          /\ EndsWith(call.instructions,
                      ": Hi, I'm Melvin. I help explain Mihir's work and connect "
                          \o "people with him. What brought you here today?")
    /\ (call.op = "on_enter" /\ enter_pc = "entered")
          => userdata.state = "DISCOVER_INTENT"

\* on_enter has resumed after the greeting
C21_Witness ==
    /\ call.op = "on_enter"
    /\ enter_pc = "entered"
    /\ call.before.state = "GREETING"
    /\ userdata.state = "DISCOVER_INTENT"

\* C22: session.aclose() is never awaited while the reply to the utterance
\* that latched the end-signal is being generated or played.
C22_TeardownAfterReply ==
    ~(/\ session.aclose = "invoked"
      /\ session.end_turn
      /\ session.reply \in { "generating", "playing" })

\* the lifecycle of section 4.6: closing from the latch of the end-signal on,
\* closed once session.aclose() has returned
Lifecycle ==
    IF session.closed THEN "closed"
    ELSE IF end_requested THEN "closing"
    ELSE "active"

LifecycleForward ==
    /\ Lifecycle = "closing" => Lifecycle' \in { "closing", "closed" }
    /\ Lifecycle = "closed" => Lifecycle' = "closed"

C24_DirectiveNamesPhase ==
    (session.reply = "generating" /\ ~session.closed)
        => Contains(session.directive, "state: " \o userdata.state \o ".")

Instructed == applied.fn = "_build_state_instruction" /\ applied.done

\* the phase a directive is composed for: DISCOVER_INTENT in place of an
\* empty or missing one
DirectivePhase ==
    IF applied.userdata.state \in { "", None } THEN "DISCOVER_INTENT"
    ELSE applied.userdata.state

\* C25: for every declared phase, an empty or missing phase and an undeclared
\* phase, _build_state_instruction yields a text that names the phase and
\* carries the voice-output contract; an undeclared phase gets the generic
\* fallback goal.
C25_ComposerTotal ==
    Instructed =>
        /\ applied.val # None /\ applied.val # ""
        /\ Contains(applied.val, "state: " \o DirectivePhase \o ".")
        /\ Contains(applied.val, "Voice output contract:")
        /\ Contains(applied.val, "- plain text only")
        /\ Contains(applied.val, "- 1 to 3 sentences by default")
        /\ Contains(applied.val, "- at most 1 question")
        /\ Contains(applied.val, "- no lists, markdown, emojis, or code")
        /\ applied.userdata.state \notin ConversationState \cup { "", None }
              => Contains(applied.val,
                     "Goal for this turn: keep it helpful, brief, and move the conversation forward.")

\* the directive composed for a phase that is not declared
C25_Witness ==
    /\ Instructed
    /\ applied.userdata.state = "ON_HOLD"
    /\ StartsWith(applied.val, "You are in state: ON_HOLD. Intent: ")
    /\ Contains(applied.val, "Voice output contract:")

\* C26: the directive for BOOKING_COLLECT_NAME_AND_EMAIL forbids calling
\* get_available_slots, book_meeting and get_current_datetime and forbids
\* inferring a name or email, allowing set_name and set_email only when the
\* message contains both; the directives for DISCOVER_INTENT with intent
\* FOUNDER and for SOFT_CTA forbid calling set_name and set_email and asking
\* for contact details.
C26_DirectiveForbidsTools ==
    Instructed =>
        /\ applied.userdata.state = "BOOKING_COLLECT_NAME_AND_EMAIL" =>
              /\ Contains(applied.val,
                     "Do NOT call get_available_slots, book_meeting, or get_current_datetime")
              /\ Contains(applied.val, "Do NOT infer, guess, or make up names or emails.")
              /\ Contains(applied.val,
                     "Only call set_name and set_email if the user's message explicitly "
                         \o "contains both their full name AND email address.")
        /\ (DirectivePhase = "DISCOVER_INTENT" /\ applied.userdata.intent_type = "FOUNDER") =>
              /\ Contains(applied.val, "Do NOT call set_name, set_email, or any booking tools.")
              /\ Contains(applied.val,
                     "Do NOT ask for their name, email, or contact information.")
        /\ applied.userdata.state = "SOFT_CTA" =>
              /\ Contains(applied.val, "Do not call set_name, set_email, or any tools.")
              /\ Contains(applied.val,
                     "Do not ask for name, email, or any contact details.")

\* the directive composed for DISCOVER_INTENT with intent FOUNDER
C26_Witness ==
    /\ Instructed
    /\ applied.userdata.state = "DISCOVER_INTENT"
    /\ applied.userdata.intent_type = "FOUNDER"
    /\ StartsWith(applied.val, "You are in state: DISCOVER_INTENT. Intent: FOUNDER.")
    /\ Contains(applied.val, "Do NOT call set_name, set_email")

Remembered == applied.fn = "_build_memory_context" /\ applied.done

\* the hint is present and has a character that is not whitespace
HintGiven ==
    /\ applied.userdata.memory_hint # None
    /\ \E i \in 1..Len(applied.userdata.memory_hint) :
          Ch(applied.userdata.memory_hint, i) # " "

Present(v) == v # None /\ v # ""

\* C27: with a non-blank hint the note holds the hint and nothing composed;
\* otherwise the note holds the intent if it is not UNKNOWN, the earlier
\* booking if booked_before, and the company and domain that are present; no
\* note is returned exactly when there is no hint and none of these.
C27_MemoryNote ==
    Remembered =>
        LET u == applied.userdata
            composed == { "intent type", "booked a call", "their background" }
        IN  /\ HintGiven =>
                  /\ StartsWith(applied.val, "Memory context (use lightly")
                  /\ \E h \in { "met at PyCon" } :
                        IsTrimOf(h, u.memory_hint) /\ EndsWith(applied.val, "\n- " \o h)
                  /\ \A c \in composed : ~Contains(applied.val, c)
            /\ (~HintGiven /\ applied.val # None) =>
                  /\ StartsWith(applied.val, "Memory context (use lightly")
                  /\ Contains(applied.val, "intent type (not certain): " \o u.intent_type \o ".")
                        <=> u.intent_type # "UNKNOWN"
                  /\ Contains(applied.val, "booked a call with Mihir before") <=> u.booked_before
                  /\ Contains(applied.val, "company: Acme") <=> Present(u.company)
                  /\ Contains(applied.val, "domain or area: fintech") <=> Present(u.domain)
                  /\ Contains(applied.val, "their background")
                        <=> (Present(u.company) \/ Present(u.domain))
            /\ applied.val = None <=>
                  /\ ~HintGiven
                  /\ u.intent_type = "UNKNOWN"
                  /\ ~u.booked_before
                  /\ ~Present(u.company) /\ ~Present(u.domain)

\* a blank hint, intent HIRING, an earlier booking and a company: a note of
\* three composed items
C27_Witness ==
    /\ Remembered
    /\ applied.userdata.memory_hint = "  "
    /\ applied.userdata.intent_type = "HIRING"
    /\ applied.userdata.booked_before
    /\ applied.userdata.company = "Acme" /\ applied.userdata.domain = None
    /\ Contains(applied.val, "HIRING")
    /\ Contains(applied.val, "company: Acme. Use this only")

(***************************************************************************)
(* The Cal.com client's validation and slot labels.                        *)
(***************************************************************************)
AllDigits(f) == \A i \in 1..Len(f) : IsDigit(Ch(f, i))

\* the parts of t between the occurrences of the character sep
RECURSIVE SplitOn(_, _)
SplitOn(t, sep) ==
    IF ~Contains(t, sep) THEN << t >>
    ELSE LET i == CHOOSE i \in 1..Len(t) :
                     Ch(t, i) = sep /\ \A j \in 1..(i - 1) : Ch(t, j) # sep
         IN  << SubSeq(t, 1, i - 1) >> \o SplitOn(SubSeq(t, i + 1, Len(t)), sep)

\* one or two digits that write a number of lo..hi
Numeral(f, lo, hi) == Len(f) \in { 1, 2 } /\ AllDigits(f) /\ ToInt(f) \in lo..hi

\* d is written YYYY-MM-DD
IsYYYYMMDD(d) ==
    /\ Len(d) = 10
    /\ \A i \in { 1, 2, 3, 4, 6, 7, 9, 10 } : IsDigit(Ch(d, i))
    /\ Ch(d, 5) = "-" /\ Ch(d, 8) = "-"

\* t is written HH:MM or H:MM, or so with AM or PM after it
IsClockLabel(t) ==
    \E k \in { 1, 2 } :
       /\ Len(t) >= k + 3
       /\ AllDigits(SubSeq(t, 1, k)) /\ Ch(t, k + 1) = ":"
       /\ AllDigits(SubSeq(t, k + 2, k + 3))
       /\ Upper(SubSeq(t, k + 4, Len(t))) \in { "", "AM", "PM", " AM", " PM" }

\* book_meeting answered with an 'Invalid ...' string and sent no request
Rejected(r) == ~r.exc /\ StartsWith(r.val, "Invalid") /\ ~r.sent

BookMeetingApplied == applied.fn = "book_meeting" /\ applied.done

WellFormedDate(d) ==
    LET p == SplitOn(Strip(d), "-") IN
    /\ Len(p) = 3
    /\ Len(p[1]) = 4 /\ AllDigits(p[1]) /\ ToInt(p[1]) >= 1
    /\ Numeral(p[2], 1, 12)
    /\ \/ Numeral(p[3], 1, 31)
       \/ Len(p[3]) = 2 /\ Ch(p[3], 1) = " " /\ Numeral(SubSeq(p[3], 2, 2), 1, 9)
    /\ ToInt(p[3]) <= DaysInMonth(ToInt(p[1]), ToInt(p[2]))

\* hour:minute of one or two digits each: 0..23 and 0..59, or 1..12 and 0..59
\* with AM or PM at the end, in any case and with spaces anywhere
WellFormedTime(t) ==
    LET u == Upper(Strip(t))
        v == Replace(u, " ", "")
    IN  IF Contains(u, "AM") \/ Contains(u, "PM")
        THEN LET p == SplitOn(SubSeq(v, 1, Len(v) - 2), ":") IN
             /\ EndsWith(v, "AM") \/ EndsWith(v, "PM")
             /\ Len(p) = 2 /\ Numeral(p[1], 1, 12) /\ Numeral(p[2], 0, 59)
        ELSE LET p == SplitOn(u, ":") IN
             Len(p) = 2 /\ Numeral(p[1], 0, 23) /\ Numeral(p[2], 0, 59)

WellFormedBooking ==
    /\ WellFormedDate(applied.args.date)
    /\ WellFormedTime(applied.args.time_slot)
    /\ applied.args.timezone \in KnownZones

C29_SlotsValidatedLocally ==
    ( /\ applied.fn = "get_available_slots" /\ applied.done
      /\ applied.args.env.configured
      /\ \/ ~IsYYYYMMDD(Strip(applied.args.start_date))
         \/ ~IsYYYYMMDD(Strip(applied.args.end_date))
         \/ applied.args.timezone \notin KnownZones )
        => ~applied.val.exc /\ ~applied.val.sent

\* the numerals of the 12-hour clock and of the minutes
HourNames == << "1", "2", "3", "4", "5", "6", "7", "8", "9", "10", "11", "12" >>

MinuteNames ==
    << "00", "01", "02", "03", "04", "05", "06", "07", "08", "09",
       "10", "11", "12", "13", "14", "15", "16", "17", "18", "19",
       "20", "21", "22", "23", "24", "25", "26", "27", "28", "29",
       "30", "31", "32", "33", "34", "35", "36", "37", "38", "39",
       "40", "41", "42", "43", "44", "45", "46", "47", "48", "49",
       "50", "51", "52", "53", "54", "55", "56", "57", "58", "59" >>

\* hour h (0..23) and minute m written on the 12-hour clock
Clock12(h, m) ==
    (IF h % 12 = 0 THEN "12" ELSE HourNames[h % 12]) \o ":" \o MinuteNames[m + 1]
        \o (IF h < 12 THEN " AM" ELSE " PM")

\* C30: the label of a UTC slot start at hour:minute, asked for a known zone,
\* is the 12-hour writing of the time of day that many minutes after midnight
\* plus the zone's offset; and the listing of the slots at 09:00 and 14:00 UTC
\* for Asia/Kolkata reads 2:30 PM and 7:30 PM.
C30_SlotLabels ==
    /\ ( /\ applied.fn = "_format_slot_time" /\ applied.done
         /\ applied.args.utc
         /\ applied.args.timezone \in KnownZones )
          => LET t == (applied.args.hour * 60 + applied.args.minute
                          + ZoneOffset[applied.args.timezone] + 1440) % 1440
             IN  applied.val = Clock12(t \div 60, t % 60)
    /\ ( /\ applied.fn = "get_available_slots" /\ applied.done
         /\ applied.args.timezone = "Asia/Kolkata"
         /\ applied.args.env.configured /\ ~applied.args.env.raises
         /\ applied.args.env.resp.filled )
          => applied.val.val = "On 2025-02-21 available times are: 2:30 PM, 7:30 PM."

\* a start before midnight UTC labelled on the next day's morning
C30_Witness ==
    /\ applied.fn = "_format_slot_time" /\ applied.done
    /\ applied.args.utc
    /\ applied.args.hour = 20 /\ applied.args.minute = 45
    /\ applied.args.timezone = "Asia/Kolkata"
    /\ applied.val = "2:15 AM"

\* C33: when the intent held is HIRING, no offer has been made and the session
\* is neither in the booking track nor in END, an utterance with a soft-CTA
\* trigger, no booking phrase and no end-signal leaves the phase SOFT_CTA,
\* also in DISCOVER_INTENT, the phase of the first utterances after the
\* greeting.
C33_SoftCtaAfterInterest ==
    ( /\ Routed
      /\ call.before.intent_type = HIRING
      /\ call.before.booking_offer_count = 0
      /\ call.before.state \notin booking_states \cup { END }
      /\ call.turn.cta /\ ~call.turn.wants_booking /\ ~call.turn.wants_end )
        => userdata.state = SOFT_CTA

\* the routing of C34: the phase rules on the intent held before the turn,
\* the intent reclassified last, and not at all in END
StatedOrder(ud, a) ==
    LET ud1 == [ud EXCEPT !.state = IF EndSignal(a) THEN END ELSE ud.state]
        ud2 == RoutePhase(ud1, a)
    IN  IF ud1.state = END THEN ud1
        ELSE [ud2 EXCEPT !.intent_type = IntentAfter(ud2, a)]

\* C34: routing an utterance leaves the userdata that the phase rules leave
\* when they are applied with the intent held before the turn and the intent
\* is reclassified afterwards, and left alone in a turn that ends in END.
C34_PhaseRulesBeforeIntent ==
    Routed => userdata = StatedOrder(call.before, call.turn)

\* C35: whenever the phase is BOOKING_TIME_RANGE, name and email are both
\* stored and non-empty.
C35_TimeRangeHasContact ==
    userdata.state = BOOKING_TIME_RANGE => BothContactsStored(userdata)

\* the recorded operation started in a booking sub-phase and left the booking
\* track
LeftBookingTrack ==
    /\ call.op # "none"
    /\ call.before.state \in booking_states
    /\ userdata.state \notin booking_states

RouterPhases ==
    { END, BOOKING_COLLECT_NAME_AND_EMAIL, BOOKING_TIME_RANGE, RECOVERY,
      OPTIONAL_DEPTH, DISCOVER_INTENT, VALUE_EXCHANGE, SOFT_CTA }

\* C37: in a session started fresh the phase is never BOOKING_PICK_SLOT or
\* BOOKING_CONFIRM_BOOKING, an operation that makes the phase WARM_CLOSE is a
\* book_meeting call, and a routed utterance leaves one of END,
\* BOOKING_COLLECT_NAME_AND_EMAIL, BOOKING_TIME_RANGE, RECOVERY,
\* OPTIONAL_DEPTH, DISCOVER_INTENT, VALUE_EXCHANGE and SOFT_CTA.
C37_PhasesWritten ==
    /\ userdata.state \notin { BOOKING_PICK_SLOT, BOOKING_CONFIRM_BOOKING }
    /\ ( /\ call.op # "none"
         /\ userdata.state = WARM_CLOSE
         /\ call.before.state # WARM_CLOSE ) => call.op = "book_meeting"
    /\ Routed => userdata.state \in RouterPhases

\* a booking request of a caller whose name and email are stored, routed to
\* BOOKING_TIME_RANGE
C37_Witness ==
    /\ Routed
    /\ call.turn.wants_booking
    /\ BothContactsStored(call.before)
    /\ call.before.state = WARM_CLOSE
    /\ userdata.state = BOOKING_TIME_RANGE

\* C38: at most one _close_after_delay task of the session is pending at any
\* time, however many utterances are routed after the end-signal.
C38_OneTeardownTask == session.close_tasks <= 1

\* C40: for a slot that starts at hour:minute UTC, listed under its date key
\* with the label of a zone, book_meeting called with that date key, label and
\* zone builds the start at hour:minute UTC of the date key.
C40_ListBookRoundTrip ==
    (applied.fn = "list_then_book" /\ applied.done)
        => applied.val.start
              = Return(UtcStart(applied.args.date, applied.args.hour,
                                applied.args.minute, "Z"), FALSE)

\* C39: when on_enter resumes after the greeting it leaves a phase of END or
\* of a booking sub-phase as the router set it, and _end_requested is set
\* only while the phase is END.
C39_GreetingKeepsRouting ==
    /\ ( /\ call.op = "on_enter"
         /\ enter_pc = "entered"
         /\ call.before.state \in booking_states \cup { END } )
          => userdata.state = call.before.state
    /\ end_requested => userdata.state = END

\* the SessionState of a job and its pending-close flag
SessionView(job) ==
    [ userdata |-> UserDataOf(job), end_requested |-> EndRequestedOf(job) ]

\* C31: of two concurrent sessions, every step (an utterance, a tool call, an
\* end-signal, a teardown) changes the userdata fields and the _end_requested
\* of at most one, and leaves those of the other as they were.
C31_SessionsIsolated ==
    [][\E job \in Jobs : \A other \in Jobs \ { job } :
          SessionView(other)' = SessionView(other)]_vars

\* one session closed after its end-signal while the other is in the booking
\* track with its contact stored and no end requested
C31_Witness ==
    /\ session[1].closed
    /\ UserDataOf(1).state = END /\ EndRequestedOf(1)
    /\ UserDataOf(1).name = None
    /\ UserDataOf(2).state = BOOKING_TIME_RANGE /\ ~EndRequestedOf(2)
    /\ UserDataOf(2).name = "Al" /\ UserDataOf(2).email = "al@x.io"

====
